---- MODULE Spec2Model ----
(***************************************************************************)
(* A model of the NestedText decoding pipeline of danielledeleo/nestedtext: *)
(* the line buffer, the line-level scanner, the inline-item automaton and    *)
(* the recursive-descent structural parser.                                   *)
(*                                                                            *)
(* Text is modelled as sequences of bytes, each a one-character string; a    *)
(* document is a sequence of physical lines (the output of the bufio split   *)
(* function). All characters of the model's alphabet are ASCII but the byte  *)
(* order mark U+FEFF, whose three bytes are written "EF", "BB", "BF".        *)
(***************************************************************************)
EXTENDS Integers, Sequences, FiniteSets, TLC

VARIABLES
  reader,       \* the io.Reader handed to Parse: its bytes and whether it ends in an error
  input,        \* the document handed to Parse: a sequence of physical lines
  MinimalMode,  \* the Minimal() decode option
  pc,           \* position of the Parse call: "open", "start", "scanning", "done",
                \* "panicked"; then "encoded" and "redecoded" for the round trip;
                \* "tokens", "scanned" and "exhausted" for a caller of
                \* Scanner.NextToken; "inline" for a caller of InlineItemParser.Parse;
                \* "calling" and "returning" inside nested parseAny calls;
                \* "concurrent" for concurrent IsIgnoredLine calls; "encoder",
                \* "limited" and "written" for the Encoder
  parser,       \* the parse.Parser of the call (scanner, token, stack, inline parser)
  result,       \* the value returned by Parse
  err,          \* the error returned by Parse
  encoded,      \* the bytes the Encoder wrote for the decoded value
  redecoded,    \* the outcome of decoding the Encoder's output
  opts,         \* the arguments of the TopLevel options handed to Parse
  blankPattern,    \* the package variable blankPattern of the line buffer
  commentPattern,  \* the package variable commentPattern of the line buffer
  goroutines,   \* the goroutines that call IsIgnoredLine concurrently: for each its
                \* position, its line and what it has done
  encodeArg,    \* the value `tree` handed to Encode
  inlineLimit,  \* the Encoder's inlineLimit
  inlineCall    \* the local variables of a call of InlineItemParser.Parse that is
                \* made on its own: calls started, automaton state, result

vars == <<reader, input, MinimalMode, pc, parser, result, err, encoded, redecoded,
          opts, blankPattern, commentPattern, goroutines, encodeArg, inlineLimit, inlineCall>>

-----------------------------------------------------------------------------
(* Bounds of the model.                                                     *)

\* lines of a block document
MaxLines == 3

\* lines of a document of dict keys
MaxKeyLines == 4

\* lines of a document of nested containers
MaxDeepLines == 4

\* lines of a document of multi-line strings
MaxStringLines == 4

\* characters between the outer brackets of an inline item
MaxInlineLen == 5

\* lines of a document given by its bytes
MaxReaderLines == 3

\* lines of a document that is decoded, encoded and decoded again
MaxRoundTripLines == 3

\* nesting levels below maxNestingDepth at which a deeply nested document
\* is taken up
MaxBelowCeiling == 1

\* lines of a document that may start with a byte order mark
MaxBOMLines == 3

\* lines of a document decoded with a TopLevel option
MaxTopLevelLines == 3

\* items of a list that is encoded
MaxEncodeItems == 2

\* longest line of a scanned document
MaxScanLen == 5

-----------------------------------------------------------------------------
(* Characters and strings.                                                  *)

\* Bind(v, F) is F(v): F's parameter names a value that is computed once
\* and used in several places, as a local variable does in the code
Bind(v, F(_)) == CHOOSE r \in { F(x) : x \in {v} } : TRUE

EOLMarker == "\n"

\* unicode.IsSpace restricted to the model's alphabet (space, tab, newline)
IsSpace(r) == r \in {" ", "\t", "\n"}

\* the regexp class \s restricted to the model's alphabet
IsReSpace(r) == r \in {" ", "\t", "\n"}

RECURSIVE TrimLeft(_)
TrimLeft(s) ==
  IF s # <<>> /\ IsSpace(Head(s)) THEN TrimLeft(Tail(s)) ELSE s

RECURSIVE TrimRight(_)
TrimRight(s) ==
  IF s # <<>> /\ IsSpace(s[Len(s)]) THEN TrimRight(SubSeq(s, 1, Len(s) - 1)) ELSE s

\* strings.TrimSpace
TrimSpace(s) == TrimRight(TrimLeft(s))

\* Go's s[lo:hi] on 0-based offsets
Slice(s, lo, hi) == SubSeq(s, lo + 1, hi)

-----------------------------------------------------------------------------
(* Errors. Code 0 is the nil error.                                         *)

NoError == 0
ErrCodeUsage == 1
ErrCodeIO == 10
\* the const block's iota is 4 at ErrCodeFormat
ErrCodeFormat == 200 + 4
ErrCodeFormatNoInput == ErrCodeFormat + 1
ErrCodeFormatToplevelIndent == ErrCodeFormat + 2
ErrCodeFormatIllegalTag == ErrCodeFormat + 3

\* a NestedTextError; wrapped names the wrapped error, "" for none
MkErr(code, line, col, msg) ==
  [Code |-> code, Line |-> line, Column |-> col, msg |-> msg, wrapped |-> ""]

NilErr == MkErr(NoError, 0, 0, "")

\* the sentinel ErrAtEof of the line buffer
ErrAtEof == MkErr(-1, 0, 0, "EOF")

\* the error a failing io.Reader returns, and io.EOF
ReadFailure == "read failure"
IoEOF == "EOF"

\* wrapIOError: an I/O error wrapping its cause, without a position
wrapIOError(msg, cause) == [MkErr(ErrCodeIO, 0, 0, msg) EXCEPT !.wrapped = cause]

\* makeFormatError: a format error without a position
makeFormatError(msg) == MkErr(ErrCodeFormat, 0, 0, msg)

\* makeParsingError: an error positioned at a token
makeParsingError(token, code, msg) == MkErr(code, token.LineNo, token.ColNo, msg)

-----------------------------------------------------------------------------
(* The bufio.Scanner of the line buffer and its split function. A token is  *)
(* [nil |-> BOOLEAN, b |-> bytes]. The reader hands over all its bytes in   *)
(* one Read and then reports io.EOF or its error, so the split function     *)
(* sees the rest of the bytes first with atEOF false and, when it asks for  *)
(* more, with atEOF true.                                                   *)

CR == "\r"
LF == "\n"

NilToken == [nil |-> TRUE, b |-> <<>>]
LineToken(b) == [nil |-> FALSE, b |-> b]

\* bytes.IndexByte: the 0-based offset of the first c in data, -1 for none
IndexByte(data, c) ==
  IF \E i \in 1..Len(data) : data[i] = c
    THEN (CHOOSE i \in 1..Len(data) : data[i] = c /\ \A j \in 1..(i - 1) : data[j] # c) - 1
    ELSE -1

\* bufio's dropCR
dropCR(data) ==
  IF Len(data) > 0 /\ data[Len(data)] = CR THEN SubSeq(data, 1, Len(data) - 1) ELSE data

\* bufio.ScanLines: returns [advance, token]
ScanLines(data, atEOF) ==
  IF atEOF /\ Len(data) = 0 THEN [advance |-> 0, token |-> NilToken]
  ELSE IF IndexByte(data, LF) >= 0
    THEN [advance |-> IndexByte(data, LF) + 1,
          token |-> LineToken(dropCR(Slice(data, 0, IndexByte(data, LF))))]
  ELSE IF atEOF THEN [advance |-> Len(data), token |-> LineToken(dropCR(data))]
  ELSE [advance |-> 0, token |-> NilToken]

\* the 0-based offsets at which the loop of the split function returns
BareCRs(data, token) ==
  { i \in 0..(Len(data) - 1) :
      /\ data[i + 1] = CR
      /\ i < Len(data) - 1
      /\ i < Len(token.b)
      /\ data[i + 2] # LF }

\* a split function that is bufio.ScanLines alone
split_ScanLinesOnly(data, atEOF) == ScanLines(data, atEOF)

\* the split function of NewLineBuffer: returns [advance, token]
split(data, atEOF) ==
  Bind(ScanLines(data, atEOF), LAMBDA r :
    IF BareCRs(data, r.token) # {}
      THEN Bind(CHOOSE i \in BareCRs(data, r.token) :
                  \A j \in BareCRs(data, r.token) : i <= j,
                LAMBDA i : [advance |-> i + 1, token |-> LineToken(Slice(data, 0, i))])
      ELSE r)

\* the lines bufio.Scanner.Scan delivers for the bytes `data` not yet
\* consumed, until it returns false
RECURSIVE ScanAll(_, _)
ScanAll(data, atEOF) ==
  IF Len(data) = 0 /\ ~atEOF THEN ScanAll(data, TRUE)
  ELSE Bind(split(data, atEOF), LAMBDA r :
         IF ~r.token.nil
           THEN <<r.token.b>> \o ScanAll(Slice(data, r.advance, Len(data)), atEOF)
         ELSE IF atEOF THEN <<>>
         ELSE ScanAll(data, TRUE))

\* the bytes of a document whose lines all end in LF
RECURSIVE JoinLF(_)
JoinLF(lines) ==
  IF lines = <<>> THEN <<>> ELSE Head(lines) \o <<LF>> \o JoinLF(Tail(lines))

-----------------------------------------------------------------------------
(* Line buffer.                                                             *)
(* Input is the sequence of physical lines the bufio.Scanner has not yet    *)
(* delivered and ReadErr tells whether the reader fails once they are used  *)
(* up; LineSize models buf.Line.Size() and LineNil tells buf.Line == nil.   *)

\* the UTF-8 encoding of the byte order mark and the rune it decodes to
BOM == <<"EF", "BB", "BF">>
BOMRune == "FEFF"

\* strings.Reader.ReadRune at byte offset pos of valid UTF-8 text: the rune
\* and its width in bytes
RuneAt(text, pos) == IF text[pos + 1] = BOM[1] THEN BOMRune ELSE text[pos + 1]
RuneLen(text, pos) == IF text[pos + 1] = BOM[1] THEN Len(BOM) ELSE 1

\* string(r): the bytes of a rune
RuneBytes(r) == IF r = BOMRune THEN BOM ELSE <<r>>

\* IsIgnoredLine recognising blank lines only
RECURSIVE IsIgnoredText_BlankOnly(_)
IsIgnoredText_BlankOnly(text) ==
  IF text = <<>> THEN TRUE
  ELSE IF IsReSpace(Head(text)) THEN IsIgnoredText_BlankOnly(Tail(text))
  ELSE FALSE

\* IsIgnoredLine: blank lines (^\s*$) and comment lines (^\s*#)
RECURSIVE IsIgnoredText(_)
IsIgnoredText(text) ==
  IF text = <<>> THEN TRUE
  ELSE IF IsReSpace(Head(text)) THEN IsIgnoredText(Tail(text))
  ELSE Head(text) = "#"

\* IsEof that looks at the isEof flag only
IsEof_FlagOnly(buf) == buf.isEof >= 2

IsEof(buf) == buf.isEof >= 2 \/ buf.LineSize = 0

\* IsEof evaluates buf.Line.Size() on a nil buf.Line
IsEofPanics(buf) == buf.isEof < 2 /\ buf.LineNil

\* AdvanceCursor: returns [buf, err]
AdvanceCursor(buf) ==
  IF buf.isEof > 2 THEN [buf |-> buf, err |-> ErrAtEof]
  ELSE IF buf.ByteCursor >= buf.LineSize
    THEN [buf |-> [buf EXCEPT !.Lookahead = EOLMarker], err |-> NilErr]
    ELSE [buf |-> [buf EXCEPT !.Lookahead = RuneAt(buf.Text, buf.ByteCursor),
                              !.ByteCursor = buf.ByteCursor + RuneLen(buf.Text, buf.ByteCursor),
                              !.Cursor = buf.Cursor + 1],
          err |-> NilErr]

\* AdvanceLine with a line count that leaves out the ignored lines
RECURSIVE AdvanceLineLoop_Uncounted(_)
AdvanceLineLoop_Uncounted(buf) ==
  IF buf.isEof # 0 THEN AdvanceCursor(buf)
  ELSE IF buf.Input = <<>>
    THEN IF buf.ReadErr
           THEN [buf |-> [buf EXCEPT !.CurrentLine = buf.CurrentLine + 1],
                 err |-> wrapIOError("I/O error while reading input", ReadFailure)]
           ELSE [buf |-> [buf EXCEPT !.CurrentLine = buf.CurrentLine + 1,
                                     !.isEof = 1, !.LineSize = 0, !.LineNil = FALSE],
                 err |-> ErrAtEof]
    ELSE Bind([buf EXCEPT !.Text = Head(buf.Input),
                          !.LineSize = Len(Head(buf.Input)),
                          !.LineNil = FALSE,
                          !.Input = Tail(buf.Input)],
              LAMBDA b : IF IsIgnoredText(b.Text) THEN AdvanceLineLoop_Uncounted(b)
                         ELSE AdvanceCursor([b EXCEPT !.CurrentLine = buf.CurrentLine + 1]))

\* the loop of AdvanceLine that reads lines until a content line or EOF
RECURSIVE AdvanceLineLoop(_)
AdvanceLineLoop(buf) ==
  IF buf.isEof # 0 THEN AdvanceCursor(buf)
  ELSE IF buf.Input = <<>>
    THEN IF buf.ReadErr
           THEN [buf |-> [buf EXCEPT !.CurrentLine = buf.CurrentLine + 1],
                 err |-> wrapIOError("I/O error while reading input", ReadFailure)]
           ELSE [buf |-> [buf EXCEPT !.CurrentLine = buf.CurrentLine + 1,
                                     !.isEof = 1, !.LineSize = 0, !.LineNil = FALSE],
                 err |-> ErrAtEof]
    ELSE Bind([buf EXCEPT !.CurrentLine = buf.CurrentLine + 1,
                          !.Text = Head(buf.Input),
                          !.LineSize = Len(Head(buf.Input)),
                          !.LineNil = FALSE,
                          !.Input = Tail(buf.Input)],
              LAMBDA b : IF IsIgnoredText(b.Text) THEN AdvanceLineLoop(b)
                         ELSE AdvanceCursor(b))

\* AdvanceLine: returns [buf, err]
AdvanceLine(buf) ==
  IF buf.isEof = 1
    THEN [buf |-> [buf EXCEPT !.Cursor = 0, !.ByteCursor = 0, !.isEof = 2], err |-> ErrAtEof]
    ELSE AdvanceLineLoop([buf EXCEPT !.Cursor = 0, !.ByteCursor = 0])

\* NewLineBuffer on a reader that delivers `lines` and then fails or ends
NewLineBuffer(lines, fails) ==
  Bind(AdvanceLine([Input |-> lines, ReadErr |-> fails, CurrentLine |-> 0, Text |-> <<>>,
                    LineSize |-> 0, LineNil |-> TRUE, Cursor |-> 0, ByteCursor |-> 0,
                    Lookahead |-> "", isEof |-> 0, LastError |-> NilErr]),
       LAMBDA r :
         Bind([r.buf EXCEPT !.LastError = IF r.err = ErrAtEof THEN NilErr ELSE r.err],
              LAMBDA b : IF b.Lookahead = BOMRune THEN AdvanceCursor(b).buf ELSE b))

\* ReadLineRemainder: returns [buf, s]
ReadLineRemainder(buf) ==
  Bind(AdvanceLine(buf), LAMBDA r :
    [buf |-> [r.buf EXCEPT !.LastError = r.err],
     s |-> IF IsEof(buf) THEN <<>>
           ELSE IF buf.Lookahead = EOLMarker THEN <<>>
           ELSE IF buf.ByteCursor = buf.LineSize THEN RuneBytes(buf.Lookahead)
           ELSE IF buf.ByteCursor > buf.LineSize THEN <<>>
           ELSE RuneBytes(buf.Lookahead) \o Slice(buf.Text, buf.ByteCursor, buf.LineSize)])

\* Match with a predicate that accepts the lookahead (SingleRune(lookahead), Anything)
Match(buf) ==
  IF IsEof(buf) \/ buf.LastError # NilErr THEN buf
  ELSE Bind(IF buf.Lookahead = EOLMarker THEN AdvanceLine(buf) ELSE AdvanceCursor(buf),
            LAMBDA r : IF r.err # NilErr /\ r.err # ErrAtEof
                         THEN [r.buf EXCEPT !.LastError = r.err]
                         ELSE r.buf)

-----------------------------------------------------------------------------
(* Tokens and the line-level scanner.                                       *)
(* A scanner is [Buf, Step, LastError]; Step names the next step function,  *)
(* "nil" for none.                                                          *)

TokenTypes == {"Undefined", "EOF", "EmptyDocument", "DocRoot", "ListItem",
               "ListItemMultiline", "StringMultiline", "DictKeyMultiline",
               "InlineList", "InlineDict", "InlineDictKeyValue", "InlineDictKey"}

NewToken(line, col) ==
  [LineNo |-> line, ColNo |-> col, TokenType |-> "Undefined", Indent |-> 0,
   Content |-> <<>>, Error |-> NilErr]

\* isMatchingBracket that takes any closing character
isMatchingBracket_Any(open, close) == TRUE

isMatchingBracket(open, close) ==
  IF open = "[" THEN close = "]"
  ELSE IF open = "{" THEN close = "}"
  ELSE FALSE

\* recognizeItemTag: returns [buf, token]
recognizeItemTag(buf, tag, single, multi, token) ==
  IF buf.Lookahead # " " /\ buf.Lookahead # EOLMarker
    THEN [buf |-> buf,
          token |-> [token EXCEPT !.Error =
                       makeParsingError(token, ErrCodeFormat + 3, "item tag followed by illegal character")]]
  ELSE IF buf.Lookahead = " "
    THEN Bind(ReadLineRemainder(Match(buf)), LAMBDA r :
           [buf |-> r.buf,
            token |-> [token EXCEPT !.TokenType = single,
                                    !.Content = Append(token.Content, r.s)]])
    ELSE [buf |-> Match(buf), token |-> [token EXCEPT !.TokenType = multi]]

\* recognizeInlineItem: returns [buf, token]
recognizeInlineItem(buf, toktype, token) ==
  Bind(TrimSpace(buf.Text), LAMBDA trimmed :
  Bind(ReadLineRemainder(buf), LAMBDA r :
    [buf |-> r.buf,
     token |-> [token EXCEPT
                  !.Error = IF ~isMatchingBracket(buf.Lookahead, trimmed[Len(trimmed)])
                              THEN makeParsingError(token, ErrCodeFormat + 3,
                                                    "inline-item does not match opening tag")
                              ELSE token.Error,
                  !.TokenType = toktype,
                  !.Content = Append(token.Content, r.s)]]))

\* ScanFileStart without the check of the first content line's indentation
ScanFileStart_NoIndentCheck(buf, token) ==
  IF IsEof(buf)
    THEN [buf |-> buf, token |-> [token EXCEPT !.TokenType = "EmptyDocument"], step |-> "nil"]
    ELSE [buf |-> buf, token |-> [token EXCEPT !.TokenType = "DocRoot", !.Indent = 0],
          step |-> "nil"]

\* Each step function returns [buf, token, step].
ScanFileStart(buf, token) ==
  IF IsEof(buf)
    THEN [buf |-> buf, token |-> [token EXCEPT !.TokenType = "EmptyDocument"], step |-> "nil"]
    ELSE [buf |-> buf,
          token |-> [token EXCEPT
                       !.TokenType = "DocRoot",
                       !.Indent = 0,
                       !.Error = IF buf.Lookahead = " "
                                   THEN makeParsingError(token, ErrCodeFormat + 1,
                                                         "top-level item must not be indented")
                                   ELSE token.Error],
          step |-> "nil"]

InvalidIndentChar(buf, token) ==
  [buf |-> buf,
   token |-> [token EXCEPT !.Error =
                makeParsingError(token, ErrCodeFormat, "invalid character in indentation")],
   step |-> "nil"]

ScanItem(buf, token) ==
  IF buf.Lookahead = " " THEN [buf |-> buf, token |-> token, step |-> "ScanIndentation"]
  ELSE IF buf.Lookahead = "\t" THEN InvalidIndentChar(buf, token)
  ELSE IF IsSpace(buf.Lookahead) /\ buf.Lookahead # "\n" THEN InvalidIndentChar(buf, token)
  ELSE [buf |-> buf, token |-> token, step |-> "ScanItemBody"]

ScanIndentation(buf, token) ==
  IF buf.Lookahead = " "
    THEN [buf |-> Match(buf), token |-> [token EXCEPT !.Indent = token.Indent + 1],
          step |-> "ScanIndentation"]
  ELSE IF buf.Lookahead = "\t" THEN InvalidIndentChar(buf, token)
  ELSE IF IsSpace(buf.Lookahead) /\ buf.Lookahead # "\n" THEN InvalidIndentChar(buf, token)
  ELSE [buf |-> buf, token |-> token, step |-> "ScanItemBody"]

\* the tag cases without the look at the character after the tag
ScanTag_AlwaysTag(buf, tag, single, multi, token) ==
  Bind(recognizeItemTag(Match(buf), tag, single, multi, token), LAMBDA r :
    [buf |-> r.buf, token |-> r.token, step |-> "nil"])

\* the three tag cases of ScanItemBody: '-', '>' and ':'
ScanTag(buf, tag, single, multi, token) ==
  Bind(Match(buf), LAMBDA b1 :
    IF b1.Lookahead \in {" ", "\n"}
      THEN Bind(recognizeItemTag(b1, tag, single, multi, token), LAMBDA r :
             [buf |-> r.buf, token |-> r.token, step |-> "nil"])
      ELSE [buf |-> b1, token |-> token, step |-> "ScanInlineKey"])

ScanItemBody(buf, token) ==
  CASE buf.Lookahead = "-" -> ScanTag(buf, "-", "ListItem", "ListItemMultiline", token)
    [] buf.Lookahead = ">" -> ScanTag(buf, ">", "StringMultiline", "StringMultiline", token)
    [] buf.Lookahead = ":" -> ScanTag(buf, ":", "DictKeyMultiline", "DictKeyMultiline", token)
    [] buf.Lookahead = "[" ->
         Bind(recognizeInlineItem(buf, "InlineList", token), LAMBDA r :
           [buf |-> r.buf, token |-> r.token, step |-> "nil"])
    [] buf.Lookahead = "{" ->
         Bind(recognizeInlineItem(buf, "InlineDict", token), LAMBDA r :
           [buf |-> r.buf, token |-> r.token, step |-> "nil"])
    [] OTHER -> [buf |-> buf, token |-> token, step |-> "ScanInlineKey"]

\* ScanInlineKey that takes the first ':' as the end of the key
ScanInlineKey_FirstColon(buf, token) ==
  CASE buf.Lookahead = ":" ->
         Bind(Match(buf), LAMBDA b1 :
           Bind(recognizeItemTag(b1, ":", "InlineDictKeyValue", "InlineDictKey",
                  [token EXCEPT !.Content = Append(token.Content,
                     TrimSpace(Slice(b1.Text, token.Indent, b1.ByteCursor - 2)))]),
                LAMBDA r : [buf |-> r.buf, token |-> r.token, step |-> "nil"]))
    [] buf.Lookahead = EOLMarker ->
         [buf |-> buf,
          token |-> [token EXCEPT !.Error =
                       makeParsingError(token, ErrCodeFormat + 3, "dict key item not properly terminated by ':'")],
          step |-> "nil"]
    [] OTHER -> [buf |-> Match(buf), token |-> token, step |-> "ScanInlineKey"]

ScanInlineKey(buf, token) ==
  CASE buf.Lookahead = ":" ->
         Bind(Match(buf), LAMBDA b1 :
           CASE b1.Lookahead = " " ->
                  Bind(recognizeItemTag(b1, ":", "InlineDictKeyValue", "InlineDictKey",
                         [token EXCEPT !.Content = Append(token.Content,
                            TrimSpace(Slice(b1.Text, token.Indent, b1.ByteCursor - 2)))]),
                       LAMBDA r : [buf |-> r.buf, token |-> r.token, step |-> "nil"])
             [] b1.Lookahead = EOLMarker ->
                  Bind(recognizeItemTag(b1, ":", "InlineDictKeyValue", "InlineDictKey",
                         [token EXCEPT !.Content = Append(token.Content,
                            TrimSpace(Slice(b1.Text, token.Indent, b1.ByteCursor - 1)))]),
                       LAMBDA r : [buf |-> r.buf, token |-> r.token, step |-> "nil"])
             [] OTHER -> [buf |-> b1, token |-> token, step |-> "ScanInlineKey"])
    [] buf.Lookahead = EOLMarker ->
         [buf |-> buf,
          token |-> [token EXCEPT !.Error =
                       makeParsingError(token, ErrCodeFormat + 3, "dict key item not properly terminated by ':'")],
          step |-> "nil"]
    [] OTHER -> [buf |-> Match(buf), token |-> token, step |-> "ScanInlineKey"]

ApplyStep(step, buf, token) ==
  CASE step = "ScanFileStart" -> ScanFileStart(buf, token)
    [] step = "ScanItem" -> ScanItem(buf, token)
    [] step = "ScanIndentation" -> ScanIndentation(buf, token)
    [] step = "ScanItemBody" -> ScanItemBody(buf, token)
    [] step = "ScanInlineKey" -> ScanInlineKey(buf, token)

\* NewScanner
NewScanner(lines, fails) ==
  [Buf |-> NewLineBuffer(lines, fails), Step |-> "ScanFileStart", LastError |-> NilErr]

\* the step loop of NextToken: returns [sc, tok]
RECURSIVE StepLoop(_, _)
StepLoop(sc, token) ==
  IF sc.Step = "nil" THEN [sc |-> sc, tok |-> token]
  ELSE Bind(ApplyStep(sc.Step, sc.Buf, token), LAMBDA r :
         IF r.token.Error # NilErr
           THEN [sc |-> [Buf |-> AdvanceLine(r.buf).buf, Step |-> r.step,
                         LastError |-> r.token.Error],
                 tok |-> r.token]
         ELSE IF r.buf.LineSize = 0
           THEN [sc |-> [sc EXCEPT !.Buf = r.buf, !.Step = r.step], tok |-> r.token]
           ELSE StepLoop([sc EXCEPT !.Buf = r.buf, !.Step = r.step], r.token))

\* NextToken: returns [sc, tok]
NextToken(sc) ==
  Bind(NewToken(sc.Buf.CurrentLine, sc.Buf.Cursor), LAMBDA token :
    IF IsEof(sc.Buf) THEN [sc |-> sc, tok |-> [token EXCEPT !.TokenType = "EOF"]]
    ELSE IF sc.Buf.LastError # NilErr
      THEN [sc |-> sc, tok |-> [token EXCEPT !.Error = sc.Buf.LastError]]
      ELSE StepLoop([sc EXCEPT !.Step = IF sc.Step = "nil" THEN "ScanItem" ELSE sc.Step], token))

-----------------------------------------------------------------------------
(* Values: a scalar is [t |-> "str", v |-> text], a sequence                *)
(* [t |-> "list", v |-> <<values>>], a mapping [t |-> "map", v |-> f] with  *)
(* f a function from keys to values (a Go map has no order); nil is         *)
(* [t |-> "nil"].                                                           *)

Nil == [t |-> "nil", v |-> <<>>]
Str(s) == [t |-> "str", v |-> s]
List(vs) == [t |-> "list", v |-> vs]
Map(f) == [t |-> "map", v |-> f]

-----------------------------------------------------------------------------
(* Parser stack. A stack is a sequence of entries, the top last. A pointer  *)
(* to a string (StackEntry.Key) is [nil |-> BOOLEAN, s |-> text].           *)

NilKey == [nil |-> TRUE, s |-> <<>>]
KeyPtr(s) == [nil |-> FALSE, s |-> s]

StateError == -1
StateS1 == 11
StateS2 == 12
StateA1 == 13
StateA2 == 14

IsErrorState(state) == state < 0
IsNonterm(state) == state = StateS1 \/ state = StateS2
IsAccept(state) == state = StateA1 \/ state = StateA2
IsGhost(state) == state = 5 \/ state = 10

\* a fresh entry as pushNonterm builds it; KeysNil models Keys == nil
NewEntry(isDict) ==
  [Values |-> <<>>, Keys |-> <<>>, KeysNil |-> ~isDict, Key |-> NilKey,
   Error |-> NilErr, NontermState |-> 0]

Tos(stack) == stack[Len(stack)]

Pop(stack) == IF Len(stack) > 0 THEN SubSeq(stack, 1, Len(stack) - 1) ELSE stack

Push(stack, e) == Append(stack, e)

SetTos(stack, e) == [stack EXCEPT ![Len(stack)] = e]

HasKey(keys, k) == \E i \in 1..Len(keys) : keys[i] = k

\* Stack.PushKV: returns [stack, err]
\* PushKV without the search for an equal key
PushKV_NoDuplicateCheck(stack, str, val) ==
  Bind(Tos(stack), LAMBDA tos :
    IF ~str.nil
      THEN IF tos.KeysNil
             THEN [stack |-> stack, err |-> makeFormatError("unexpected key in non-dict context")]
             ELSE [stack |-> SetTos(stack, [tos EXCEPT !.Keys = Append(tos.Keys, str.s),
                                                       !.Values = Append(tos.Values, val)]),
                   err |-> NilErr]
      ELSE [stack |-> SetTos(stack, [tos EXCEPT !.Values = Append(tos.Values, val)]),
            err |-> NilErr])

PushKV(stack, str, val) ==
  Bind(Tos(stack), LAMBDA tos :
    IF ~str.nil
      THEN IF tos.KeysNil
             THEN [stack |-> stack, err |-> makeFormatError("unexpected key in non-dict context")]
           ELSE IF HasKey(tos.Keys, str.s)
             THEN [stack |-> stack, err |-> makeFormatError("duplicate key")]
           ELSE [stack |-> SetTos(stack, [tos EXCEPT !.Keys = Append(tos.Keys, str.s),
                                                     !.Values = Append(tos.Values, val)]),
                 err |-> NilErr]
      ELSE [stack |-> SetTos(stack, [tos EXCEPT !.Values = Append(tos.Values, val)]),
            err |-> NilErr])

\* the index of the last occurrence of key k in keys (a later assignment
\* dict[key] = ... overwrites an earlier one)
LastIndex(keys, k) == CHOOSE i \in 1..Len(keys) :
                        keys[i] = k /\ \A j \in (i + 1)..Len(keys) : keys[j] # k

\* ReduceToItem reducing every entry to the sequence of its values
ReduceToItem_Values(entry) == List(entry.Values)

\* StackEntry.ReduceToItem (the 'mixed item' panic is reported as Nil)
ReduceToItem(entry) ==
  IF entry.KeysNil THEN List(entry.Values)
  ELSE IF Len(entry.Keys) > 0 /\ Len(entry.Values) # Len(entry.Keys) THEN Nil
  ELSE Map([k \in {entry.Keys[i] : i \in 1..Len(entry.Keys)} |->
              entry.Values[LastIndex(entry.Keys, k)]])

-----------------------------------------------------------------------------
(* Inline item parser.                                                      *)

chClassCnt == 11

\* InlineTokenFor: the character class of a rune
InlineTokenFor(r) ==
  CASE r = " " -> 1
    [] r = "\n" -> 2
    [] r = "," -> 3
    [] r = ":" -> 4
    [] r = "[" -> 5
    [] r = "]" -> 6
    [] r = "{" -> 7
    [] r = "}" -> 8
    [] OTHER -> IF IsSpace(r) THEN 1 ELSE 0

stateIndex(s) == (s - StateS1) + chClassCnt - 2

\* the transition table; row state + 1, column class + 1
inlineStateMachine == <<
  <<-1, -1, -1, -1, -1, 7, -1, 1, -1, -1, -1>>,
  <<2, 2, -1, -1, 3, -1, -1, -1, 13, -1, -1>>,
  <<2, 2, -1, -1, 3, -1, -1, -1, -1, -1, -1>>,
  <<4, 3, -1, 6, -1, 12, -1, 11, 13, 5, 5>>,
  <<4, 4, -1, 6, -1, -1, -1, -1, 13, -1, -1>>,
  <<-1, 5, -1, 6, -1, -1, -1, -1, 13, -1, -1>>,
  <<2, 6, -1, -1, 3, -1, -1, -1, -1, -1, -1>>,
  <<9, 8, -1, 7, 9, 12, 14, 11, -1, 10, 10>>,
  <<9, 8, -1, 7, 9, 12, 14, 11, -1, 10, 10>>,
  <<9, 9, -1, 7, 9, -1, 14, -1, -1, -1, -1>>,
  <<-1, 10, -1, 7, -1, -1, 14, -1, -1, -1, -1>>,
  <<-1, -1, -1, -1, -1, -1, -1, 1, -1, -1, -1>>,
  <<-1, -1, -1, -1, -1, 7, -1, -1, -1, -1, -1>>,
  <<-1, -1, -1, -1, -1, -1, -1, -1, -1, -1, -1>>,
  <<-1, -1, -1, -1, -1, -1, -1, -1, -1, -1, -1>> >>

Delta(state, class) == inlineStateMachine[state + 1][class + 1]

\* The inline parser is [Text, TextPosition, Marker, LineNo, Stack].

\* InlineItemParser.pushNonterm
inlinePushNonterm(ip, state) == [ip EXCEPT !.Stack = Push(ip.Stack, NewEntry(state = StateS1))]

\* appendStringValue appending the text before a closing bracket even when
\* it is empty and the collection has no value yet
appendStringValue_Always(ip, isAccept) ==
  Bind(PushKV(ip.Stack, Tos(ip.Stack).Key,
              Str(TrimSpace(Slice(ip.Text, ip.Marker, ip.TextPosition)))),
       LAMBDA r : [ip |-> [ip EXCEPT !.Stack = r.stack], err |-> r.err])

\* appendStringValue: returns [ip, err]
appendStringValue(ip, isAccept) ==
  Bind(Slice(ip.Text, ip.Marker, ip.TextPosition), LAMBDA value :
  Bind(Tos(ip.Stack), LAMBDA tos :
    IF ~tos.Key.nil \/ ~isAccept \/ Len(value) > 0 \/ Len(tos.Values) > 0
      THEN Bind(PushKV(ip.Stack, tos.Key, Str(TrimSpace(value))), LAMBDA r :
             [ip |-> [ip EXCEPT !.Stack = r.stack], err |-> r.err])
      ELSE [ip |-> ip, err |-> NilErr]))

\* the common part of the actions that append the pending text: returns [ip, ok]
AppendOrFail(ip, isAccept) ==
  Bind(appendStringValue(ip, isAccept), LAMBDA r :
    IF r.err # NilErr
      THEN [ip |-> [ip EXCEPT !.Stack = SetTos(ip.Stack, [Tos(ip.Stack) EXCEPT !.Error = r.err])],
            ok |-> FALSE]
      ELSE [ip |-> r.ip, ok |-> TRUE])

\* accept, the action of the states A1 and A2
accept(ip, from) ==
  IF ip.Marker > 0 /\ ~IsGhost(from) THEN AppendOrFail(ip, TRUE)
  ELSE [ip |-> ip, ok |-> TRUE]

\* inlineStateMachineActions[to]: returns [ip, ok]
InlineAction(ip, from, to, ch, w) ==
  CASE to = 1 -> [ip |-> [ip EXCEPT !.Marker = ip.TextPosition + w], ok |-> TRUE]
    [] to = 3 ->
         IF from # 3
           THEN [ip |-> [ip EXCEPT
                           !.Stack = SetTos(ip.Stack,
                             [Tos(ip.Stack) EXCEPT !.Key =
                                KeyPtr(TrimSpace(Slice(ip.Text, ip.Marker, ip.TextPosition)))]),
                           !.Marker = ip.TextPosition + w],
                 ok |-> TRUE]
           ELSE [ip |-> ip, ok |-> TRUE]
    [] to = 6 ->
         IF from # 6
           THEN Bind(IF ip.Marker > 0 /\ ~IsGhost(from) THEN AppendOrFail(ip, FALSE)
                     ELSE [ip |-> ip, ok |-> TRUE],
                     LAMBDA r :
                       IF ~r.ok THEN r
                       ELSE [ip |-> [r.ip EXCEPT
                                       !.Stack = SetTos(r.ip.Stack,
                                                   [Tos(r.ip.Stack) EXCEPT !.Key = NilKey]),
                                       !.Marker = ip.TextPosition + w],
                             ok |-> TRUE])
           ELSE [ip |-> ip, ok |-> TRUE]
    [] to = 7 ->
         Bind(IF ch = "," /\ ip.Marker > 0 /\ ~IsGhost(from) THEN AppendOrFail(ip, FALSE)
              ELSE [ip |-> ip, ok |-> TRUE],
              LAMBDA r :
                IF ~r.ok THEN r
                ELSE [ip |-> [r.ip EXCEPT !.Marker = ip.TextPosition + w], ok |-> TRUE])
    [] to \in {StateS1, StateS2} ->
         IF from = 3 \/ from = 8 THEN [ip |-> [ip EXCEPT !.Marker = 0], ok |-> TRUE]
         ELSE [ip |-> ip, ok |-> TRUE]
    [] to \in {StateA1, StateA2} -> accept(ip, from)
    [] OTHER -> [ip |-> ip, ok |-> TRUE]

\* the end of InlineItemParser.Parse without the look at the rest of the line
InlineFinish_NoRemainderCheck(ip, state, res) ==
  [ip |-> ip, result |-> res,
   err |-> IF IsErrorState(state)
             THEN IF Tos(ip.Stack).Error # NilErr THEN Tos(ip.Stack).Error
                  ELSE MkErr(ErrCodeFormat, ip.LineNo, ip.TextPosition, "format error")
             ELSE NilErr]

\* the result of InlineItemParser.Parse once the loop has ended in `state`
InlineFinish(ip, state, res) ==
  Bind(IF IsErrorState(state)
         THEN IF Tos(ip.Stack).Error # NilErr THEN Tos(ip.Stack).Error
              ELSE MkErr(ErrCodeFormat, ip.LineNo, ip.TextPosition, "format error")
         ELSE NilErr,
       LAMBDA e :
         [ip |-> ip, result |-> res,
          err |-> IF /\ e = NilErr
                     /\ Len(ip.Stack) = 0
                     /\ Len(TrimSpace(Slice(ip.Text, ip.TextPosition, Len(ip.Text)))) > 0
                    THEN MkErr(ErrCodeFormat, ip.LineNo, ip.TextPosition,
                               "extra characters after closing delimiter")
                    ELSE e])

RECURSIVE InlineLoop(_, _, _)

\* the accepting branch of the loop of InlineItemParser.Parse: pop and reduce
\* the top entry, attach the value to the entry below it and go on at
\* position pos in the popped entry's NontermState
InlineReduce(ip, pos, res) ==
  Bind(Pop(ip.Stack), LAMBDA popped :
  Bind(ReduceToItem(Tos(ip.Stack)), LAMBDA red :
    IF Len(popped) > 0
      THEN Bind(PushKV(popped, Tos(popped).Key, red), LAMBDA r :
             IF r.err # NilErr
               THEN InlineFinish(
                      [ip EXCEPT !.Stack = SetTos(popped, [Tos(popped) EXCEPT !.Error = r.err])],
                      StateError, red)
               ELSE InlineLoop([ip EXCEPT !.Stack = r.stack, !.TextPosition = pos],
                               Tos(ip.Stack).NontermState, red))
      ELSE InlineLoop([ip EXCEPT !.Stack = popped, !.TextPosition = pos],
                      Tos(ip.Stack).NontermState, red)))

\* the loop of InlineItemParser.Parse: returns [ip, result, err]
InlineLoop(ip, state0, res) ==
  IF Len(ip.Stack) = 0 THEN InlineFinish(ip, state0, res)
  ELSE IF ip.TextPosition >= Len(ip.Text)
    THEN [ip |-> ip, result |-> Nil,
          err |-> wrapIOError("I/O-error reading inline item", IoEOF)]
  ELSE
    Bind(ip.Text[ip.TextPosition + 1], LAMBDA ch :
    Bind(Delta(state0, InlineTokenFor(ch)), LAMBDA s1 :
      IF IsErrorState(s1) THEN InlineFinish(ip, s1, res)
      ELSE
        Bind(IF IsNonterm(s1) THEN Delta(s1, InlineTokenFor(ch)) ELSE s1, LAMBDA state :
        Bind(InlineAction(
               IF IsNonterm(s1)
                 THEN Bind(inlinePushNonterm(ip, s1), LAMBDA pushed :
                        [pushed EXCEPT !.Stack = SetTos(pushed.Stack,
                           [Tos(pushed.Stack) EXCEPT
                              !.NontermState = Delta(state0, stateIndex(s1))])])
                 ELSE ip,
               state0, state, ch, 1),
             LAMBDA a :
          IF ~a.ok THEN InlineFinish(a.ip, StateError, res)
          ELSE IF IsAccept(state)
            THEN InlineReduce(a.ip, ip.TextPosition + 1, res)
            ELSE InlineLoop([a.ip EXCEPT !.TextPosition = ip.TextPosition + 1], state, res)))))

\* NewInlineParser
NewInlineParser == [Text |-> <<>>, TextPosition |-> 0, Marker |-> 0, LineNo |-> 0, Stack |-> <<>>]

\* InlineItemParser.Parse: returns [ip, result, err]
InlineParse(ip, init, text) ==
  InlineLoop(inlinePushNonterm([ip EXCEPT !.Text = text, !.Stack = <<>>,
                                          !.TextPosition = 0, !.Marker = 0], init),
             init, Nil)

-----------------------------------------------------------------------------
(* Structural parser.                                                       *)
(* A parser is [Sc, Token, Inline, TopLevel, MinimalMode, Stack, depth].    *)
(* Every parse function returns [p, result, err]; a keyValuePair is         *)
(* returned as [p, key, value, err] with value = Nil for a nil value.       *)

maxNestingDepth == 5000

\* NewParser, with the scanner that Parse creates and the options applied
NewParser(sc, minimal, top) ==
  [Sc |-> sc, Token |-> NewToken(0, 0), Inline |-> NewInlineParser, TopLevel |-> top,
   MinimalMode |-> minimal, Stack |-> <<>>, depth |-> 0]

\* p.Token = p.Sc.NextToken()
Advance(p) ==
  Bind(NextToken(p.Sc), LAMBDA r : [p EXCEPT !.Sc = r.sc, !.Token = r.tok])

Ret(p, res, e) == [p |-> p, result |-> res, err |-> e]

RetKV(p, key, value, e) == [p |-> p, key |-> key, value |-> value, err |-> e]

\* Parser.pushNonterm
pushNonterm(p, isDict) == [p EXCEPT !.Stack = Push(p.Stack, NewEntry(isDict))]

\* allowVoid
allowVoid(val, i) == IF Len(val) <= i THEN <<>> ELSE val[i + 1]

\* the stitching loop joining the lines without a separator
RECURSIVE StitchLoop_NoNewline(_, _, _, _)
StitchLoop_NoNewline(p, indent, type, text) ==
  Bind(Advance(p), LAMBDA p1 :
    IF p1.Token.Error # NilErr THEN [p |-> p1, text |-> text, err |-> p1.Token.Error]
    ELSE IF p1.Token.TokenType # type \/ p1.Token.Indent # indent
      THEN [p |-> p1, text |-> text, err |-> NilErr]
      ELSE StitchLoop_NoNewline(p1, indent, type, text \o allowVoid(p1.Token.Content, 0)))

\* the stitching loop shared by parseMultiString and the multi-line key:
\* returns [p, text, err]
RECURSIVE StitchLoop(_, _, _, _)
StitchLoop(p, indent, type, text) ==
  Bind(Advance(p), LAMBDA p1 :
    IF p1.Token.Error # NilErr THEN [p |-> p1, text |-> text, err |-> p1.Token.Error]
    ELSE IF p1.Token.TokenType # type \/ p1.Token.Indent # indent
      THEN [p |-> p1, text |-> text, err |-> NilErr]
      ELSE StitchLoop(p1, indent, type, text \o <<"\n">> \o allowVoid(p1.Token.Content, 0)))

\* parseMultiString
parseMultiString(p, indent) ==
  IF p.Token.Indent # indent THEN Ret(p, Nil, NilErr)
  ELSE Bind(StitchLoop(p, indent, "StringMultiline", allowVoid(p.Token.Content, 0)),
            LAMBDA r : Ret(r.p, Str(r.text), r.err))

\* parseListItem taking an item at a deeper indentation as the next item
parseListItem_AnyIndent(p, indent) ==
  IF p.Token.Indent < indent THEN Ret(p, Nil, NilErr)
  ELSE Bind(Advance(p), LAMBDA p1 :
         IF p1.Token.Error # NilErr THEN Ret(p1, Nil, p1.Token.Error)
         ELSE Ret(p1, Str(p.Token.Content[1]), NilErr))

\* parseListItem
parseListItem(p, indent) ==
  IF p.Token.Indent > indent
    THEN Ret(p, Nil, makeFormatError("invalid indent: may only follow an item that does not already have a value"))
  ELSE IF p.Token.Indent < indent THEN Ret(p, Nil, NilErr)
  ELSE Bind(Advance(p), LAMBDA p1 :
         IF p1.Token.Error # NilErr THEN Ret(p1, Nil, p1.Token.Error)
         ELSE Ret(p1, Str(p.Token.Content[1]), NilErr))

\* parseDictKeyValuePair
parseDictKeyValuePair(p, indent) ==
  IF p.Token.Indent # indent THEN RetKV(p, NilKey, Nil, NilErr)
  ELSE Bind(Advance(p), LAMBDA p1 :
         IF p1.Token.Error # NilErr THEN RetKV(p1, NilKey, Nil, p1.Token.Error)
         ELSE RetKV(p1, KeyPtr(p.Token.Content[1]), Str(p.Token.Content[2]), NilErr))

RECURSIVE parseAny(_, _)
RECURSIVE parseListItems(_, _)
RECURSIVE parseDictKeyValuePairs(_, _)

\* parseList after parseListItems has returned r
parseListEnd(r) ==
  IF r.err # NilErr THEN Ret(r.p, Nil, r.err)
  ELSE Ret([r.p EXCEPT !.Stack = Pop(r.p.Stack)], ReduceToItem(Tos(r.p.Stack)), NilErr)

\* parseList
parseList(p, indent) ==
  Bind(parseListItems(pushNonterm(p, FALSE), p.Token.Indent), LAMBDA r : parseListEnd(r))

\* parseListItemMultiline after parseAny has returned r
parseListItemMultilineEnd(r, indent) ==
  IF r.p.Token.Indent > indent
    THEN Ret(r.p, Nil, makeFormatError("invalid indent: may only follow an item that does not already have a value"))
    ELSE r

\* parseListItemMultiline that leaves the value of a bare item nil
parseListItemMultiline_NilValue(p, indent) ==
  IF p.Token.Indent # indent THEN Ret(p, Nil, NilErr)
  ELSE Bind(Advance(p), LAMBDA p1 :
         IF p1.Token.Error # NilErr THEN Ret(p1, Nil, p1.Token.Error)
         ELSE IF p1.Token.Indent <= indent THEN Ret(p1, Nil, NilErr)
         ELSE Bind(parseAny(p1, p1.Token.Indent), LAMBDA r :
                parseListItemMultilineEnd(r, indent)))

\* parseListItemMultiline
parseListItemMultiline(p, indent) ==
  IF p.Token.Indent # indent THEN Ret(p, Nil, NilErr)
  ELSE Bind(Advance(p), LAMBDA p1 :
         IF p1.Token.Error # NilErr THEN Ret(p1, Nil, p1.Token.Error)
         ELSE IF p1.Token.Indent <= indent THEN Ret(p1, Str(<<>>), NilErr)
         ELSE Bind(parseAny(p1, p1.Token.Indent), LAMBDA r :
                parseListItemMultilineEnd(r, indent)))

\* the loop of parseListItems after an item has been parsed as r
parseListItemsNext(r, indent) ==
  IF r.result # Nil /\ r.err = NilErr
    THEN Bind(PushKV(r.p.Stack, NilKey, r.result), LAMBDA pk :
           IF pk.err # NilErr THEN Ret(r.p, Nil, pk.err)
           ELSE parseListItems([r.p EXCEPT !.Stack = pk.stack], indent))
  ELSE IF r.err # NilErr THEN Ret(r.p, Nil, r.err)
  ELSE Ret(r.p, List(Tos(r.p.Stack).Values), NilErr)

\* parseListItems
parseListItems(p, indent) ==
  IF p.Token.TokenType \notin {"ListItem", "ListItemMultiline"}
    THEN Ret(p, List(Tos(p.Stack).Values), NilErr)
  ELSE Bind(IF p.Token.TokenType = "ListItem" THEN parseListItem(p, indent)
            ELSE parseListItemMultiline(p, indent),
            LAMBDA r : parseListItemsNext(r, indent))

\* parseDict after parseDictKeyValuePairs has returned r
parseDictEnd(r, indent) ==
  IF r.err # NilErr THEN Ret(r.p, Nil, r.err)
  ELSE Ret([r.p EXCEPT !.Stack = Pop(r.p.Stack)], ReduceToItem(Tos(r.p.Stack)),
           IF r.p.Token.Indent > indent THEN makeFormatError("partial dedent") ELSE NilErr)

\* parseDict
parseDict(p, indent) ==
  Bind(parseDictKeyValuePairs(pushNonterm(p, TRUE), p.Token.Indent), LAMBDA r :
    parseDictEnd(r, indent))

\* parseDictKeyAnyValuePair taking a key at a deeper indentation as the
\* dict's next key
parseDictKeyAnyValuePair_Deeper(p, indent) ==
  IF p.Token.Indent < indent THEN RetKV(p, NilKey, Nil, NilErr)
  ELSE Bind(KeyPtr(p.Token.Content[1]), LAMBDA key :
       Bind(Advance(p), LAMBDA p1 :
         IF p1.Token.Error # NilErr THEN RetKV(p1, key, Nil, p1.Token.Error)
         ELSE IF p1.Token.Indent <= indent THEN RetKV(p1, key, Str(<<>>), NilErr)
         ELSE Bind(parseAny(p1, p1.Token.Indent), LAMBDA r :
                RetKV(r.p, key, r.result, r.err))))

\* parseDictKeyAnyValuePair after parseAny has returned r
parseDictKeyAnyValuePairEnd(r, key) == RetKV(r.p, key, r.result, r.err)

\* parseDictKeyAnyValuePair
parseDictKeyAnyValuePair(p, indent) ==
  IF p.Token.Indent # indent THEN RetKV(p, NilKey, Nil, NilErr)
  ELSE Bind(KeyPtr(p.Token.Content[1]), LAMBDA key :
       Bind(Advance(p), LAMBDA p1 :
         IF p1.Token.Error # NilErr THEN RetKV(p1, key, Nil, p1.Token.Error)
         ELSE IF p1.Token.Indent <= indent THEN RetKV(p1, key, Str(<<>>), NilErr)
         ELSE Bind(parseAny(p1, p1.Token.Indent), LAMBDA r :
                parseDictKeyAnyValuePairEnd(r, key))))

\* parseDictKeyValuePairWithMultilineKey
parseDictKeyValuePairWithMultilineKey(p, indent) ==
  IF p.Token.Indent # indent THEN RetKV(p, NilKey, Nil, NilErr)
  ELSE Bind(StitchLoop(p, indent, "DictKeyMultiline", allowVoid(p.Token.Content, 0)),
            LAMBDA s :
         IF s.err # NilErr THEN RetKV(s.p, NilKey, Nil, s.err)
         ELSE IF s.p.Token.Indent <= indent
           THEN RetKV(s.p, KeyPtr(s.text), Nil, makeFormatError("multiline key requires a value"))
           ELSE Bind(parseAny(s.p, s.p.Token.Indent), LAMBDA r :
                  RetKV(r.p, KeyPtr(s.text), r.result, r.err)))

\* the loop of parseDictKeyValuePairs after a pair has been parsed as kv
parseDictKeyValuePairsNext(kv, indent) ==
  IF kv.value # Nil
    THEN IF kv.err # NilErr THEN Ret(kv.p, Nil, kv.err)
         ELSE Bind(PushKV(kv.p.Stack, kv.key, kv.value), LAMBDA pk :
                IF pk.err # NilErr THEN Ret(kv.p, Nil, pk.err)
                ELSE parseDictKeyValuePairs([kv.p EXCEPT !.Stack = pk.stack], indent))
    ELSE Ret(kv.p, Nil, kv.err)

\* parseDictKeyValuePairs
parseDictKeyValuePairs(p, indent) ==
  IF p.Token.TokenType \notin {"InlineDictKeyValue", "InlineDictKey", "DictKeyMultiline"}
    THEN Ret(p, Nil, NilErr)
  ELSE IF p.Token.TokenType = "DictKeyMultiline" /\ p.MinimalMode
    THEN Ret(p, Nil, makeParsingError(p.Token, ErrCodeFormat,
                       "multi-line key syntax is not allowed in minimal mode"))
  ELSE
    Bind(
      CASE p.Token.TokenType = "InlineDictKeyValue" -> parseDictKeyValuePair(p, indent)
        [] p.Token.TokenType = "InlineDictKey" -> parseDictKeyAnyValuePair(p, indent)
        [] p.Token.TokenType = "DictKeyMultiline" ->
             parseDictKeyValuePairWithMultilineKey(p, indent),
      LAMBDA kv : parseDictKeyValuePairsNext(kv, indent))

\* the inline cases of parseAny taking the inline item as a string in minimal
\* mode
parseInline_MinimalAsString(p, init, msg) ==
  IF p.MinimalMode
    THEN Bind(Advance(p), LAMBDA p2 :
           IF p2.Token.Error # NilErr THEN Ret(p2, Nil, p2.Token.Error)
           ELSE Ret(p2, Str(p.Token.Content[1]), NilErr))
  ELSE Bind(InlineParse([p.Inline EXCEPT !.LineNo = p.Token.LineNo], init, p.Token.Content[1]),
            LAMBDA r :
         IF r.err = NilErr
           THEN Bind(Advance([p EXCEPT !.Inline = r.ip]), LAMBDA p2 :
                  IF p2.Token.Error # NilErr THEN Ret(p2, Nil, p2.Token.Error)
                  ELSE Ret(p2, r.result, NilErr))
           ELSE Ret([p EXCEPT !.Inline = r.ip], r.result, r.err))

\* the inline cases of parseAny
parseInline(p, init, msg) ==
  IF p.MinimalMode THEN Ret(p, Nil, makeParsingError(p.Token, ErrCodeFormat, msg))
  ELSE Bind(InlineParse([p.Inline EXCEPT !.LineNo = p.Token.LineNo], init, p.Token.Content[1]),
            LAMBDA r :
         IF r.err = NilErr
           THEN Bind(Advance([p EXCEPT !.Inline = r.ip]), LAMBDA p2 :
                  IF p2.Token.Error # NilErr THEN Ret(p2, Nil, p2.Token.Error)
                  ELSE Ret(p2, r.result, NilErr))
           ELSE Ret([p EXCEPT !.Inline = r.ip], r.result, r.err))

\* the switch of parseAny
parseAnySwitch(p, indent) ==
  CASE p.Token.TokenType = "StringMultiline" -> parseMultiString(p, p.Token.Indent)
    [] p.Token.TokenType = "InlineList" ->
         parseInline(p, StateS2, "inline list syntax is not allowed in minimal mode")
    [] p.Token.TokenType = "InlineDict" ->
         parseInline(p, StateS1, "inline dict syntax is not allowed in minimal mode")
    [] p.Token.TokenType \in {"ListItem", "ListItemMultiline"} -> parseList(p, indent)
    [] p.Token.TokenType \in {"InlineDictKeyValue", "InlineDictKey", "DictKeyMultiline"} ->
         IF p.MinimalMode /\ p.Token.TokenType = "DictKeyMultiline"
           THEN Ret(p, Nil, makeParsingError(p.Token, ErrCodeFormat,
                              "multi-line key syntax is not allowed in minimal mode"))
           ELSE parseDict(p, indent)
    [] OTHER -> Ret(p, Nil, makeFormatError("internal error: unknown item type"))

\* the deferred p.depth-- of parseAny when its switch has returned r
parseAnyEnd(r) == Ret([r.p EXCEPT !.depth = r.p.depth - 1], r.result, r.err)

\* parseAny
parseAny(p, indent) ==
  IF p.Token.Indent < indent THEN Ret(p, Nil, NilErr)
  ELSE IF p.depth >= maxNestingDepth
    THEN Ret(p, Nil, makeFormatError("exceeded max nesting depth"))
  ELSE Bind(parseAnySwitch([p EXCEPT !.depth = p.depth + 1], indent), LAMBDA r : parseAnyEnd(r))

\* parseDocument returning what parseAny returned, whatever the next token
parseDocumentEnd_NoCheck(r) == r

\* parseDocument after parseAny has returned r
parseDocumentEnd(r) ==
  IF r.err = NilErr /\ r.p.Token.TokenType # "EOF"
    THEN Ret(r.p, r.result, makeParsingError(r.p.Token, ErrCodeFormat,
                              "unused content following valid input"))
    ELSE r

\* parseDocument
\* parseDocument that goes on after the token of an empty document
parseDocument_NoEmptyCheck(p) ==
  Bind(Advance(p), LAMBDA p1 :
    IF p1.Token.Error # NilErr THEN Ret(p1, Nil, p1.Token.Error)
    ELSE Bind(Advance(p1), LAMBDA p2 :
           IF p2.Token.Error # NilErr THEN Ret(p2, Nil, p2.Token.Error)
           ELSE Bind(parseAny(p2, 0), LAMBDA r : parseDocumentEnd(r))))

parseDocument(p) ==
  Bind(Advance(p), LAMBDA p1 :
    IF p1.Token.Error # NilErr THEN Ret(p1, Nil, p1.Token.Error)
    ELSE IF p1.Token.TokenType \in {"EOF", "EmptyDocument"} THEN Ret(p1, Nil, NilErr)
    ELSE Bind(Advance(p1), LAMBDA p2 :
           IF p2.Token.Error # NilErr THEN Ret(p2, Nil, p2.Token.Error)
           ELSE Bind(parseAny(p2, 0), LAMBDA r : parseDocumentEnd(r))))

\* the TopLevel option strings "list" and "dict" and the key "nestedtext"
TopLevelList == <<"l", "i", "s", "t">>
TopLevelDict == <<"d", "i", "c", "t">>
NestedTextKey == <<"n", "e", "s", "t", "e", "d", "t", "e", "x", "t">>

\* strings.HasPrefix
HasPrefix(s, prefix) ==
  Len(s) >= Len(prefix) /\ SubSeq(s, 1, Len(prefix)) = prefix

\* the prefix "dict." of the TopLevel option string
DictPrefix == <<"d", "i", "c", "t", ".">>

\* the Option that TopLevel(top) returns, applied to a parser: the value it
\* gives p.TopLevel, or its error
TopLevel(top) ==
  CASE top = TopLevelDict -> [TopLevel |-> TopLevelDict, err |-> NilErr]
    [] top = TopLevelList -> [TopLevel |-> TopLevelList, err |-> NilErr]
    [] OTHER ->
         IF HasPrefix(top, DictPrefix)
           THEN [TopLevel |-> Slice(top, 5, Len(top)), err |-> NilErr]
           ELSE [TopLevel |-> <<>>,
                 err |-> MkErr(ErrCodeUsage, 0, 0,
                               "option TopLevel( \"list\" | \"dict\"(\".<suffix>\")? )")]

\* the loop of Parse over its options on a parser whose p.TopLevel is `set`:
\* the value of p.TopLevel when all are applied, or the first error
RECURSIVE ApplyOptions(_, _)
ApplyOptions(set, options) ==
  IF options = <<>> THEN [TopLevel |-> set, err |-> NilErr]
  ELSE Bind(TopLevel(Head(options)), LAMBDA o :
         IF o.err # NilErr THEN o ELSE ApplyOptions(o.TopLevel, Tail(options)))

\* WrapResult that returns the result as it is
WrapResult_Unchanged(p, res) == res

\* WrapResult
WrapResult(p, res) ==
  CASE p.TopLevel = <<>> -> res
    [] p.TopLevel = TopLevelList -> IF res.t = "list" THEN res ELSE List(<<res>>)
    [] p.TopLevel = TopLevelDict ->
         IF res.t = "map" THEN res ELSE Map([k \in {NestedTextKey} |-> res])
    [] OTHER -> Map([k \in {p.TopLevel} |-> res])

\* Parser.Parse after parseDocument has returned r
ParserParseEnd(r) ==
  IF r.err = NilErr THEN Ret(r.p, WrapResult(r.p, r.result), NilErr) ELSE r

\* Parser.Parse, after NewScanner has succeeded
ParserParse(p) == Bind(parseDocument(p), LAMBDA r : ParserParseEnd(r))

-----------------------------------------------------------------------------
(* Input documents.                                                         *)

Indent(n) == [i \in 1..n |-> " "]

Indents == {0, 1, 2}

Indented(bodies) == { Indent(n) \o b : n \in Indents, b \in bodies }

\* ignored lines: an empty line and an indented comment line
IgnoredLines == { <<>>, <<" ", "#">> }

\* "- a", "-", "> a", ": a", "a: b", "a:", "[a]", "{a:b}"
BlockBodies ==
  { <<"-", " ", "a">>, <<"-">>, <<">", " ", "a">>, <<":", " ", "a">>,
    <<"a", ":", " ", "b">>, <<"a", ":">>,
    <<"[", "a", "]">>, <<"{", "a", ":", "b", "}">> }

BlockLines == Indented(BlockBodies) \cup IgnoredLines

\* "a: b", "a:", "b:", ": a", "-", "> a"
KeyBodies ==
  { <<"a", ":", " ", "b">>, <<"a", ":">>, <<"b", ":">>, <<":", " ", "a">>,
    <<"-">>, <<">", " ", "a">> }

KeyLines == Indented(KeyBodies)

\* "> a", ">", "-", "a:", "- a"
StringBodies ==
  { <<">", " ", "a">>, <<">">>, <<"-">>, <<"a", ":">>, <<"-", " ", "a">> }

StringLines == Indented(StringBodies)

\* "-", "a:", "b:", "> a" at four indentation levels
DeepBodies == { <<"-">>, <<"a", ":">>, <<"b", ":">>, <<">", " ", "a">> }

DeepLines == { Indent(n) \o b : n \in Indents \cup {3}, b \in DeepBodies }

InlineAlphabet == {"a", " ", ",", ":", "[", "]", "{", "}"}

-----------------------------------------------------------------------------
(* Encoder. encode returns the bytes it writes for a value; the writer does *)
(* not fail.                                                                *)

indentSize == 2

DefaultInlineLimit == 128

\* the byte values of the characters that occur in keys
CharCode(c) ==
  CASE c = "\t" -> 9 [] c = "\n" -> 10 [] c = "\r" -> 13 [] c = " " -> 32
    [] c = "#" -> 35 [] c = "," -> 44 [] c = "-" -> 45 [] c = ":" -> 58
    [] c = ">" -> 62 [] c = "[" -> 91 [] c = "]" -> 93 [] c = "a" -> 97
    [] c = "b" -> 98 [] c = "{" -> 123 [] c = "}" -> 125 [] OTHER -> 255

\* a < b for Go strings
RECURSIVE StringLess(_, _)
StringLess(a, b) ==
  IF b = <<>> THEN FALSE
  ELSE IF a = <<>> THEN TRUE
  ELSE IF Head(a) # Head(b) THEN CharCode(Head(a)) < CharCode(Head(b))
  ELSE StringLess(Tail(a), Tail(b))

\* sort.Slice of the map's keys
RECURSIVE SortKeys(_)
SortKeys(keys) ==
  IF keys = {} THEN <<>>
  ELSE Bind(CHOOSE k \in keys : \A j \in keys \ {k} : StringLess(k, j),
            LAMBDA k : <<k>> \o SortKeys(keys \ {k}))

\* strings.Split(s, "\n")
RECURSIVE SplitNL(_)
SplitNL(s) ==
  IF IndexByte(s, LF) < 0 THEN <<s>>
  ELSE <<Slice(s, 0, IndexByte(s, LF))>> \o SplitNL(Slice(s, IndexByte(s, LF) + 1, Len(s)))

\* encItemPattern: the characters forbidden per item category
encItemPattern(what) ==
  CASE what = "encAsKey" -> {":", "\n"}
    [] what = "encAsString" -> {"\n"}
    [] what = "encAsList" -> {"[", "]", ",", "\n"}
    [] what = "encAsDict" -> {"{", "}", ",", ":", "\n"}

\* isInlineable, the flag; the bytes are those of the string
isInlineable(what, item) ==
  /\ item.t = "str"
  /\ item.v # <<>>
  /\ \A i \in 1..Len(item.v) : item.v[i] \notin encItemPattern(what)

\* Encoder.indent
encIndent(indent) == [i \in 1..(indent * indentSize) |-> " "]

\* the loops over strings.Split(t, "\n"): every line indented and ended
RECURSIVE encodeLines(_, _)
encodeLines(indent, S) ==
  IF S = <<>> THEN <<>>
  ELSE encIndent(indent) \o Head(S) \o <<LF>> \o encodeLines(indent, Tail(S))

\* one line of a string after its tag
StringTag(s) == <<">", " ">> \o s

\* one line of a multi-line key after its tag
KeyTag(s) == IF s = <<>> THEN <<":">> ELSE <<":", " ">> \o s

RECURSIVE encode(_, _)
RECURSIVE encodeItems(_, _)
RECURSIVE encodePairs(_, _, _)

\* encodeIfNotEmpty
encodeIfNotEmpty(item, indent) ==
  IF item.t = "str" /\ item.v = <<>> THEN <<>> ELSE encode(indent + 1, item)

\* the []interface{} case of encode
encodeItems(indent, t) ==
  IF t = <<>> THEN <<>>
  ELSE encIndent(indent) \o <<"-">>
       \o (IF isInlineable("encAsList", Head(t))
             THEN <<" ">> \o Head(t).v \o <<LF>>
             ELSE <<LF>> \o encode(indent + 1, Head(t)))
       \o encodeItems(indent, Tail(t))

\* the reflect.Map case of encodeReflected for the sorted keys
encodePairs(indent, m, keys) ==
  IF keys = <<>> THEN <<>>
  ELSE (IF isInlineable("encAsKey", Str(Head(keys)))
          THEN encIndent(indent) \o Head(keys) \o <<":">>
               \o (IF isInlineable("encAsString", m[Head(keys)])
                     THEN <<" ">> \o m[Head(keys)].v \o <<LF>>
                     ELSE <<LF>> \o encodeIfNotEmpty(m[Head(keys)], indent))
          ELSE encodeLines(indent, [i \in DOMAIN SplitNL(Head(keys)) |->
                                       KeyTag(SplitNL(Head(keys))[i])])
               \o encodeIfNotEmpty(m[Head(keys)], indent))
       \o encodePairs(indent, m, Tail(keys))

\* Encoder.encode for the values the decoder returns
encode(indent, tree) ==
  CASE tree.t = "str" -> encodeLines(indent, [i \in DOMAIN SplitNL(tree.v) |-> StringTag(SplitNL(tree.v)[i])])
    [] tree.t = "list" -> encodeItems(indent, tree.v)
    [] tree.t = "map" ->
         IF DOMAIN tree.v = {} THEN <<"{", "}", LF>>
         ELSE encodePairs(indent, tree.v, SortKeys(DOMAIN tree.v))

\* Encoder.SetInlineLimit
SetInlineLimit(limit) == IF limit > 2048 THEN 2048 ELSE limit

\* the items of a list separated by ", "
RECURSIVE JoinComma(_)
JoinComma(S) ==
  IF S = <<>> THEN <<>>
  ELSE IF Len(S) = 1 THEN Head(S)
  ELSE Head(S) \o <<",", " ">> \o JoinComma(Tail(S))

\* strconv.Itoa
Digits == <<"0", "1", "2", "3", "4", "5", "6", "7", "8", "9">>

RECURSIVE Itoa(_)
Itoa(n) ==
  IF n < 0 THEN <<"-">> \o Itoa(0 - n)
  ELSE IF n < 10 THEN <<Digits[n + 1]>>
  ELSE Itoa(n \div 10) \o <<Digits[(n % 10) + 1]>>

\* the loop of the []string case that measures the items from item i on:
\* the length l and the flag inlineable when the loop ends or breaks
RECURSIVE measureItems(_, _, _, _, _)
measureItems(t, i, l, inlineable, limit) ==
  IF i > Len(t) THEN [l |-> l, inlineable |-> inlineable]
  ELSE Bind(inlineable /\ isInlineable("encAsList", Str(t[i])), LAMBDA ok :
         IF ~ok \/ l + Len(t[i]) > limit
           THEN [l |-> l + Len(t[i]), inlineable |-> ok]
           ELSE measureItems(t, i + 1, l + Len(t[i]), ok, limit))

\* the general case of the []string case: list items with '-' as tag
RECURSIVE encodeStringItems(_, _)
encodeStringItems(indent, t) ==
  IF t = <<>> THEN <<>>
  ELSE encIndent(indent) \o <<"-">>
       \o (IF IndexByte(Head(t), LF) < 0
             THEN <<" ">> \o Head(t) \o <<LF>>
             ELSE <<LF>> \o encode(indent + 1, Str(Head(t))))
       \o encodeStringItems(indent, Tail(t))

\* the []string case of encode
encodeStrings(indent, t, limit) ==
  IF Len(t) <= 5
     /\ Bind(measureItems(t, 1, 0, TRUE, limit), LAMBDA m : m.inlineable /\ m.l <= limit)
    THEN encIndent(indent) \o <<"[">> \o JoinComma(t) \o <<"]", LF>>
    ELSE encodeStringItems(indent, t)

\* the general case of the []int case
RECURSIVE encodeIntItems(_, _)
encodeIntItems(indent, t) ==
  IF t = <<>> THEN <<>>
  ELSE encIndent(indent) \o <<"-", " ">> \o Itoa(Head(t)) \o <<LF>>
       \o encodeIntItems(indent, Tail(t))

\* the []int case of encode
encodeInts(indent, t) ==
  IF Len(t) <= 10
    THEN encIndent(indent) \o <<"[">> \o JoinComma([i \in DOMAIN t |-> Itoa(t[i])]) \o <<"]", LF>>
    ELSE encodeIntItems(indent, t)

\* Encoder.Encode for a []string, a []int or a value the decoder returns
Encode(v, limit) ==
  CASE v.t = "[]string" -> encodeStrings(0, v.v, limit)
    [] v.t = "[]int" -> encodeInts(0, v.v)
    [] OTHER -> encode(0, v)

-----------------------------------------------------------------------------
(* The Parse call as a state machine.                                       *)

\* no call of InlineItemParser.Parse made on its own
NoInlineCall == [n |-> 0, state |-> 0, result |-> Nil, at |-> "idle"]

\* a nil *regexp.Regexp, and the pattern an earlier call has compiled
NilPattern == "nil"
EarlierPattern == "earlier"

\* one call of Parse without TopLevel option in a process where an earlier
\* call has compiled the patterns of IsIgnoredLine; no Encoder
NothingElse ==
  /\ opts = <<>>
  /\ blankPattern = EarlierPattern
  /\ commentPattern = EarlierPattern
  /\ goroutines = <<>>
  /\ encodeArg = Nil
  /\ inlineLimit = DefaultInlineLimit
  /\ inlineCall = NoInlineCall

\* the parser before Parse has created a scanner
NoParser == NewParser(NewScanner(<<>>, FALSE), FALSE, <<>>)

\* the outcome of a decode that has not happened
NoOutcome == [result |-> Nil, err |-> NilErr]

\* the call before Parse has done anything
NotStarted ==
  /\ parser = NoParser
  /\ result = Nil
  /\ err = NilErr
  /\ encoded = <<>>
  /\ redecoded = NoOutcome
  /\ NothingElse

\* a call whose reader delivers the lines of `input`, each ended by LF, and
\* then ends
InitCall ==
  /\ pc = "start"
  /\ reader = [data |-> JoinLF(input), fails |-> FALSE]
  /\ NotStarted

\* documents of block lines, with and without minimal mode
Init ==
  /\ \E k \in 0..MaxLines : input \in [1..k -> BlockLines]
  /\ MinimalMode \in BOOLEAN
  /\ InitCall

\* documents of dict key lines
InitKeys ==
  /\ \E k \in 0..MaxKeyLines : input \in [1..k -> KeyLines]
  /\ MinimalMode = FALSE
  /\ InitCall

\* documents of container lines nested up to three levels deep
InitDeep ==
  /\ \E k \in 0..MaxDeepLines : input \in [1..k -> DeepLines]
  /\ MinimalMode = FALSE
  /\ InitCall

\* documents of multi-line string lines
InitStrings ==
  /\ \E k \in 0..MaxStringLines : input \in [1..k -> StringLines]
  /\ MinimalMode = FALSE
  /\ InitCall

\* documents of one line holding an inline list or dict
InitInline ==
  /\ \E k \in 0..MaxInlineLen, o \in {"[", "{"}, c \in {"]", "}"} :
       \E m \in [1..k -> InlineAlphabet] : input = << <<o>> \o m \o <<c>> >>
  /\ MinimalMode = FALSE
  /\ InitCall

\* Parse up to Parser.Parse's NewScanner: the options are applied to a new
\* parser, and the first option that fails ends the call; then the scanner
\* and the line buffer are created and positioned at the first content line.
\* (Parse of src/unnamed/part_002 takes the TopLevel options, Parse of
\* src/parse.go the Minimal option.)
CreateScanner ==
  /\ pc = "start"
  /\ \E o \in {ApplyOptions(<<>>, opts)} :
       IF o.err # NilErr
         THEN /\ pc' = "done"
              /\ err' = o.err
              /\ UNCHANGED <<parser, result>>
         ELSE /\ pc' = "scanning"
              /\ parser' = NewParser(NewScanner(input, reader.fails), MinimalMode, o.TopLevel)
              /\ UNCHANGED <<result, err>>
  /\ UNCHANGED <<reader, input, MinimalMode, encoded, redecoded,
                 opts, blankPattern, commentPattern, goroutines, encodeArg, inlineLimit, inlineCall>>

\* the rest of Parser.Parse: parseDocument and WrapResult. parseDocument
\* starts with NextToken, which starts with sc.Buf.IsEof(): with buf.Line
\* still nil, buf.Line.Size() dereferences a nil *strings.Reader and the
\* call panics
ParseDocument ==
  /\ pc = "scanning"
  /\ IF IsEofPanics(parser.Sc.Buf)
       THEN /\ pc' = "panicked"
            /\ UNCHANGED <<parser, result, err>>
       ELSE /\ \E r \in {ParserParse(parser)} :
                 /\ parser' = r.p
                 /\ result' = r.result
                 /\ err' = r.err
            /\ pc' = "done"
  /\ UNCHANGED <<reader, input, MinimalMode, encoded, redecoded,
               opts, blankPattern, commentPattern, goroutines, encodeArg, inlineLimit, inlineCall>>

Next == CreateScanner \/ ParseDocument

Spec == Init /\ [][Next]_vars

SpecKeys == InitKeys /\ [][Next]_vars

SpecDeep == InitDeep /\ [][Next]_vars

SpecStrings == InitStrings /\ [][Next]_vars

SpecInline == InitInline /\ [][Next]_vars

\* "- a", "a: b", "> a"
TopLevelBodies == { <<"-", " ", "a">>, <<"a", ":", " ", "b">>, <<">", " ", "a">> }

\* "list", "dict", "dict.list", "dict.dict", "dict.", "dict.a", "a"
TopLevelArgs ==
  { TopLevelList, TopLevelDict, DictPrefix \o TopLevelList, DictPrefix \o TopLevelDict,
    DictPrefix, DictPrefix \o <<"a">>, <<"a">> }

\* documents of unindented lines, decoded with one TopLevel option or none
InitTopLevel ==
  /\ \E k \in 0..MaxTopLevelLines : input \in [1..k -> TopLevelBodies]
  /\ MinimalMode = FALSE
  /\ pc = "start"
  /\ reader = [data |-> JoinLF(input), fails |-> FALSE]
  /\ parser = NoParser
  /\ result = Nil
  /\ err = NilErr
  /\ encoded = <<>>
  /\ redecoded = NoOutcome
  /\ opts \in {<<>>} \cup { <<top>> : top \in TopLevelArgs }
  /\ blankPattern = EarlierPattern
  /\ commentPattern = EarlierPattern
  /\ goroutines = <<>>
  /\ encodeArg = Nil
  /\ inlineLimit = DefaultInlineLimit
  /\ inlineCall = NoInlineCall

SpecTopLevel == InitTopLevel /\ [][Next]_vars

\* "", "#a", "a: b", "- a", "a:"
BOMBodies ==
  { <<>>, <<"#", "a">>, <<"a", ":", " ", "b">>, <<"-", " ", "a">>, <<"a", ":">> }

\* documents with and without a byte order mark in front of the first line
InitBOM ==
  /\ \E k \in 0..MaxBOMLines :
       \E ls \in [1..k -> BOMBodies], mark \in {<<>>, BOM} :
         input = [i \in 1..k |-> IF i = 1 THEN mark \o ls[i] ELSE ls[i]]
  /\ MinimalMode = FALSE
  /\ InitCall

SpecBOM == InitBOM /\ [][Next]_vars

\* "[]", "{}", "-", "- a", "a:", "a: b", ": a", ": - a", "> a", ">"
RoundTripBodies ==
  { <<"[", "]">>, <<"{", "}">>, <<"-">>, <<"-", " ", "a">>, <<"a", ":">>,
    <<"a", ":", " ", "b">>, <<":", " ", "a">>, <<":", " ", "-", " ", "a">>,
    <<">", " ", "a">>, <<">">> }

RoundTripLines == { Indent(n) \o b : n \in {0, 1}, b \in RoundTripBodies }

\* documents whose value is encoded and decoded again
InitRoundTrip ==
  /\ \E k \in 0..MaxRoundTripLines : input \in [1..k -> RoundTripLines]
  /\ MinimalMode = FALSE
  /\ InitCall

\* Encoder.Encode of the value Parse has returned, into a buffer
EncodeValue ==
  /\ pc = "done"
  /\ err = NilErr
  /\ result # Nil
  /\ encoded' = encode(0, result)
  /\ pc' = "encoded"
  /\ UNCHANGED <<reader, input, MinimalMode, parser, result, err, redecoded,
               opts, blankPattern, commentPattern, goroutines, encodeArg, inlineLimit, inlineCall>>

\* Parse of the bytes the encoder has written
DecodeEncoded ==
  /\ pc = "encoded"
  /\ \E r \in {ParserParse(NewParser(NewScanner(ScanAll(encoded, FALSE), FALSE),
                                      MinimalMode, <<>>))} :
       redecoded' = [result |-> r.result, err |-> r.err]
  /\ pc' = "redecoded"
  /\ UNCHANGED <<reader, input, MinimalMode, parser, result, err, encoded,
               opts, blankPattern, commentPattern, goroutines, encodeArg, inlineLimit, inlineCall>>

NextRoundTrip == CreateScanner \/ ParseDocument \/ EncodeValue \/ DecodeEncoded

SpecRoundTrip == InitRoundTrip /\ [][NextRoundTrip]_vars

\* "- a", "a: b", "> a", "[a]", "[[a]]", "{a: [b]}"
NestedBodies ==
  { <<"-", " ", "a">>, <<"a", ":", " ", "b">>, <<">", " ", "a">>,
    <<"[", "a", "]">>, <<"[", "[", "a", "]", "]">>,
    <<"{", "a", ":", " ", "[", "b", "]", "}">> }

\* the key of the lines 'a:' of a document of nested dicts
NestedKey == KeyPtr(<<"a">>)

\* the parser in parseDocument when the only line `body` of a document has
\* been scanned as p.Token
ShallowParser(body) == Advance(Advance(NewParser(NewScanner(<<body>>, FALSE), FALSE, <<>>)))

\* the parser in the document of d + 1 lines whose lines 1..d are '-' (or
\* 'a:' where isDict holds: outer for the lines 1..d-1, inner for line d),
\* line i indented by i - 1 spaces, and whose last line is `body` indented
\* by d spaces, when the last line has been scanned as p.Token: d
\* invocations of parseAny are active, each has pushed its entry, and the
\* innermost parseListItemMultiline (parseDictKeyAnyValuePair) is about to
\* call parseAny for the last line
DeepParser(d, outer, inner, body) ==
  Bind(ShallowParser(body), LAMBDA p :
    [p EXCEPT !.depth = d,
              !.Stack = [i \in 1..d |-> NewEntry(IF i = d THEN inner ELSE outer)],
              !.Token.Indent = d,
              !.Token.LineNo = p.Token.LineNo + d,
              !.Sc.Buf.CurrentLine = p.Sc.Buf.CurrentLine + d,
              !.Sc.Buf.Text = Indent(d) \o body])

\* deeply nested documents, taken up where the last line is to be parsed;
\* input and reader hold the last line only
InitNested ==
  /\ \E d \in (maxNestingDepth - MaxBelowCeiling)..maxNestingDepth,
        outer \in BOOLEAN, inner \in BOOLEAN, body \in NestedBodies :
       /\ parser = DeepParser(d, outer, inner, body)
       /\ input = << Indent(d) \o body >>
  /\ reader = [data |-> JoinLF(input), fails |-> FALSE]
  /\ MinimalMode = FALSE
  /\ pc = "calling"
  /\ result = Nil
  /\ err = NilErr
  /\ encoded = <<>>
  /\ redecoded = NoOutcome
  /\ NothingElse

\* the call of parseAny for the last line, from parseListItemMultiline or
\* parseDictKeyAnyValuePair
CallParseAny ==
  /\ pc = "calling"
  /\ \E r \in {parseAny(parser, parser.Token.Indent)} :
       /\ parser' = r.p
       /\ result' = r.result
       /\ err' = r.err
  /\ pc' = "returning"
  /\ UNCHANGED <<reader, input, MinimalMode, encoded, redecoded,
               opts, blankPattern, commentPattern, goroutines, encodeArg, inlineLimit, inlineCall>>

\* the return of r from parseAny into the function of nesting level n that
\* called it, whose line is indented by n - 1 spaces, and on through the
\* functions of that level: parseListItemMultiline, parseListItems,
\* parseList and parseAny, or parseDictKeyAnyValuePair,
\* parseDictKeyValuePairs, parseDict and parseAny
ReturnToLevel(r, n) ==
  IF r.p.Stack[n].KeysNil
    THEN parseAnyEnd(parseListEnd(
           parseListItemsNext(parseListItemMultilineEnd(r, n - 1), n - 1)))
    ELSE parseAnyEnd(parseDictEnd(
           parseDictKeyValuePairsNext(parseDictKeyAnyValuePairEnd(r, NestedKey), n - 1),
           n - 1))

\* the returns to the levels hi, hi - 1, ..., lo one after the other: the
\* outcome of the levels above the middle is returned to the levels below
RECURSIVE ReturnThrough(_, _, _)
ReturnThrough(r, lo, hi) ==
  IF lo > hi THEN r
  ELSE IF lo = hi THEN ReturnToLevel(r, lo)
  ELSE CHOOSE out \in { ReturnThrough(x, lo, (lo + hi) \div 2) :
                          x \in {ReturnThrough(r, (lo + hi) \div 2 + 1, hi)} } : TRUE

\* the return of an error from parseAny through all the levels into
\* parseDocument and Parser.Parse. (A value is not followed back: it comes
\* to be nested maxNestingDepth deep.)
ReturnError ==
  /\ pc = "returning"
  /\ err # NilErr
  /\ \E r \in {ParserParseEnd(parseDocumentEnd(
                 ReturnThrough(Ret(parser, result, err), 1, parser.depth)))} :
       /\ parser' = r.p
       /\ result' = r.result
       /\ err' = r.err
  /\ pc' = "done"
  /\ UNCHANGED <<reader, input, MinimalMode, encoded, redecoded,
               opts, blankPattern, commentPattern, goroutines, encodeArg, inlineLimit, inlineCall>>

NextNested == CallParseAny \/ ReturnError

SpecNested == InitNested /\ [][NextNested]_vars

\* the three line separators
Seps == { <<CR>>, <<LF>>, <<CR, LF>> }

\* "", " ", "#a", "- a", "a:"
ReaderBodies == { <<>>, <<" ">>, <<"#", "a">>, <<"-", " ", "a">>, <<"a", ":">> }

\* the bytes of the lines ls, line i followed by ss[i]
RECURSIVE JoinSeps(_, _)
JoinSeps(ls, ss) ==
  IF ls = <<>> THEN <<>> ELSE Head(ls) \o Head(ss) \o JoinSeps(Tail(ls), Tail(ss))

\* documents given by the bytes the reader delivers, with every line
\* separator and with or without one after the last line, from a reader that
\* ends or fails after these bytes
InitReader ==
  /\ \E k \in 0..MaxReaderLines :
       \E ls \in [1..k -> ReaderBodies], ss \in [1..k -> Seps \cup {<<>>}], f \in BOOLEAN :
         /\ \A i \in 1..(k - 1) : ss[i] # <<>>
         /\ reader = [data |-> JoinSeps(ls, ss), fails |-> f]
  /\ input = <<>>
  /\ MinimalMode = FALSE
  /\ pc = "open"
  /\ NotStarted

\* the bufio.Scanner of the line buffer splits the reader's bytes into lines
ReadLines ==
  /\ pc = "open"
  /\ input' = ScanAll(reader.data, FALSE)
  /\ pc' = "start"
  /\ UNCHANGED <<reader, MinimalMode, parser, result, err, encoded, redecoded,
               opts, blankPattern, commentPattern, goroutines, encodeArg, inlineLimit, inlineCall>>

NextReader == ReadLines \/ CreateScanner \/ ParseDocument

SpecReader == InitReader /\ [][NextReader]_vars

-----------------------------------------------------------------------------
(* Encoding a list with an inline limit.                                    *)

\* "", "a", "ab"
EncodeStrings == { <<>>, <<"a">>, <<"a", "b">> }

EncodeInts == { 0, 12 }

\* the arguments of SetInlineLimit
InlineLimits == { 0, 1, 3, 3000 }

\* the lists handed to Encode: []string, []int and []interface{} of strings
EncodeKinds == {"[]string", "[]int", "list"}

\* a new Encoder and the list it is to encode
InitEncoder ==
  /\ \E k \in 0..MaxEncodeItems, kind \in EncodeKinds :
       CASE kind = "[]string" ->
              \E l \in [1..k -> EncodeStrings] : encodeArg = [t |-> kind, v |-> l]
         [] kind = "[]int" ->
              \E l \in [1..k -> EncodeInts] : encodeArg = [t |-> kind, v |-> l]
         [] OTHER ->
              \E l \in [1..k -> EncodeStrings] : encodeArg = List([i \in 1..k |-> Str(l[i])])
  /\ inlineLimit = DefaultInlineLimit
  /\ inlineCall = NoInlineCall
  /\ pc = "encoder"
  /\ encoded = <<>>
  /\ opts = <<>>
  /\ blankPattern = EarlierPattern
  /\ commentPattern = EarlierPattern
  /\ goroutines = <<>>
  /\ reader = [data |-> <<>>, fails |-> FALSE]
  /\ input = <<>>
  /\ MinimalMode = FALSE
  /\ parser = NoParser
  /\ result = Nil
  /\ err = NilErr
  /\ redecoded = NoOutcome

\* the option InlineLimited(limit)
InlineLimited ==
  /\ pc = "encoder"
  /\ \E limit \in InlineLimits : inlineLimit' = SetInlineLimit(limit)
  /\ pc' = "limited"
  /\ UNCHANGED <<reader, input, MinimalMode, parser, result, err, encoded, redecoded,
                 opts, blankPattern, commentPattern, goroutines, encodeArg, inlineCall>>

\* Encoder.Encode
EncodeList ==
  /\ pc \in {"encoder", "limited"}
  /\ encoded' = Encode(encodeArg, inlineLimit)
  /\ pc' = "written"
  /\ UNCHANGED <<reader, input, MinimalMode, parser, result, err, redecoded,
                 opts, blankPattern, commentPattern, goroutines, encodeArg, inlineLimit, inlineCall>>

NextEncoder == InlineLimited \/ EncodeList

SpecEncoder == InitEncoder /\ [][NextEncoder]_vars

-----------------------------------------------------------------------------
(* Concurrent calls of Parse on independent readers. All that the calls     *)
(* share are the package variables blankPattern and commentPattern, which   *)
(* IsIgnoredLine reads and writes without synchronisation: each goroutine  *)
(* is taken up in its first call of IsIgnoredLine, and each of its reads    *)
(* and writes of a package variable is one step.                            *)

Goroutines == {"g1", "g2"}

\* "", "#", "a", " a"
RaceTexts == { <<>>, <<"#">>, <<"a">>, <<" ", "a">> }

\* blankPattern.MatchString: ^\s*$
blankMatchString(text) == \A i \in 1..Len(text) : IsReSpace(text[i])

\* commentPattern.MatchString: ^\s*#
commentMatchString(text) ==
  \E i \in 1..Len(text) :
    text[i] = "#" /\ \A j \in 1..(i - 1) : IsReSpace(text[j])

\* what a read of a package variable holding ptr may return in goroutine g:
\* nothing orders the read after another goroutine's write, so g sees the
\* written pointer or still the initial nil; its own write it does see
Observed(ptr, g) ==
  IF goroutines[g].compiled THEN {ptr} ELSE {ptr, NilPattern}

\* a process in which no call has compiled the patterns yet
InitRace ==
  /\ goroutines \in [Goroutines -> { [pc |-> "check", Text |-> t, compiled |-> FALSE,
                                      ignored |-> FALSE] : t \in RaceTexts }]
  /\ blankPattern = NilPattern
  /\ commentPattern = NilPattern
  /\ opts = <<>>
  /\ encodeArg = Nil
  /\ inlineLimit = DefaultInlineLimit
  /\ inlineCall = NoInlineCall
  /\ reader = [data |-> <<>>, fails |-> FALSE]
  /\ input = <<>>
  /\ MinimalMode = FALSE
  /\ pc = "concurrent"
  /\ parser = NoParser
  /\ result = Nil
  /\ err = NilErr
  /\ encoded = <<>>
  /\ redecoded = NoOutcome

\* if blankPattern == nil
CheckBlank(g) ==
  /\ goroutines[g].pc = "check"
  /\ \E seen \in Observed(blankPattern, g) :
       goroutines' = [goroutines EXCEPT
                        ![g].pc = IF seen = NilPattern THEN "setBlank" ELSE "matchBlank"]
  /\ UNCHANGED <<reader, input, MinimalMode, pc, parser, result, err, encoded, redecoded,
                 opts, blankPattern, commentPattern, encodeArg, inlineLimit, inlineCall>>

\* blankPattern = regexp.MustCompile(`^\s*$`): the pointer to a new Regexp
SetBlank(g) ==
  /\ goroutines[g].pc = "setBlank"
  /\ blankPattern' = g
  /\ goroutines' = [goroutines EXCEPT ![g].pc = "setComment", ![g].compiled = TRUE]
  /\ UNCHANGED <<reader, input, MinimalMode, pc, parser, result, err, encoded, redecoded,
                 opts, commentPattern, encodeArg, inlineLimit, inlineCall>>

\* commentPattern = regexp.MustCompile(`^\s*#`)
SetComment(g) ==
  /\ goroutines[g].pc = "setComment"
  /\ commentPattern' = g
  /\ goroutines' = [goroutines EXCEPT ![g].pc = "matchBlank"]
  /\ UNCHANGED <<reader, input, MinimalMode, pc, parser, result, err, encoded, redecoded,
                 opts, blankPattern, encodeArg, inlineLimit, inlineCall>>

\* blankPattern.MatchString(buf.Text): the goroutine has seen or written a
\* pointer that is not nil
MatchBlank(g) ==
  /\ goroutines[g].pc = "matchBlank"
  /\ goroutines' = [goroutines EXCEPT
                      ![g].pc = IF blankMatchString(goroutines[g].Text)
                                  THEN "returned" ELSE "matchComment",
                      ![g].ignored = blankMatchString(goroutines[g].Text)]
  /\ UNCHANGED <<reader, input, MinimalMode, pc, parser, result, err, encoded, redecoded,
                 opts, blankPattern, commentPattern, encodeArg, inlineLimit, inlineCall>>

\* commentPattern.MatchString(buf.Text): on a nil *Regexp the method
\* dereferences nil and the goroutine panics
MatchComment(g) ==
  /\ goroutines[g].pc = "matchComment"
  /\ \E seen \in Observed(commentPattern, g) :
       goroutines' = [goroutines EXCEPT
                        ![g].pc = IF seen = NilPattern THEN "panicked" ELSE "returned",
                        ![g].ignored = seen # NilPattern
                                         /\ commentMatchString(goroutines[g].Text)]
  /\ UNCHANGED <<reader, input, MinimalMode, pc, parser, result, err, encoded, redecoded,
                 opts, blankPattern, commentPattern, encodeArg, inlineLimit, inlineCall>>

NextRace ==
  \E g \in Goroutines :
    CheckBlank(g) \/ SetBlank(g) \/ SetComment(g) \/ MatchBlank(g) \/ MatchComment(g)

SpecRace == InitRace /\ [][NextRace]_vars

-----------------------------------------------------------------------------
(* Reading a document by its text, independently of the scanner.            *)

\* a line of only whitespace
IsBlankLine(l) == \A i \in 1..Len(l) : l[i] \in {" ", "\t"}

\* a line whose first non-whitespace character is '#'
IsCommentLine(l) ==
  \E i \in 1..Len(l) : l[i] = "#" /\ \A j \in 1..(i - 1) : l[j] \in {" ", "\t"}

IsContentLine(l) == ~IsBlankLine(l) /\ ~IsCommentLine(l)

\* the indices of the content lines of a document, in order
RECURSIVE ContentIndices(_, _)
ContentIndices(doc, i) ==
  IF i > Len(doc) THEN <<>>
  ELSE IF IsContentLine(doc[i]) THEN <<i>> \o ContentIndices(doc, i + 1)
  ELSE ContentIndices(doc, i + 1)

\* the content lines of a document
ContentLines(doc) == LET ix == ContentIndices(doc, 1) IN [k \in 1..Len(ix) |-> doc[ix[k]]]

\* the number of leading spaces of a line
RECURSIVE LeadingSpaces(_)
LeadingSpaces(l) == IF l # <<>> /\ Head(l) = " " THEN 1 + LeadingSpaces(Tail(l)) ELSE 0

\* the line without its indentation
BodyOf(l) == SubSeq(l, LeadingSpaces(l) + 1, Len(l))

Done == pc = "done"

Failed == err # NilErr

\* the outcome of decoding another document with the same options
Decode(doc) == ParserParse(NewParser(NewScanner(doc, FALSE), MinimalMode, <<>>))

-----------------------------------------------------------------------------
(* C2: a content line indented more deeply than the content line before it  *)
(* is accepted only if that line is a '-' line, a 'key:' line or a          *)
(* multi-line key line; after a line that carries its value ('- value',     *)
(* 'key: value') decoding fails.                                            *)

ValuelessBodies == { <<"-">>, <<"a", ":">>, <<"b", ":">>, <<":", " ", "a">> }

ValuedBodies == { <<"-", " ", "a">>, <<"a", ":", " ", "b">> }

DeeperAfter(doc, bodies) ==
  LET c == ContentLines(doc) IN
  \E i \in 1..(Len(c) - 1) :
    /\ LeadingSpaces(c[i + 1]) > LeadingSpaces(c[i])
    /\ BodyOf(c[i]) \in bodies

C2_IndentOnlyAfterValuelessItem ==
  Done =>
    LET c == ContentLines(input) IN
    \A i \in 1..(Len(c) - 1) :
      (LeadingSpaces(c[i + 1]) > LeadingSpaces(c[i]) /\ BodyOf(c[i]) \notin ValuelessBodies)
        => Failed

\* '- a' at the top level followed by a deeper line: the list item reports it
C2_Witness ==
  /\ Done
  /\ DeeperAfter(input, ValuedBodies)
  /\ LeadingSpaces(ContentLines(input)[1]) = 0
  /\ err.msg = "invalid indent: may only follow an item that does not already have a value"

-----------------------------------------------------------------------------
(* C3: a document with a content line whose indentation lies strictly       *)
(* between the indentation of an open container and the indentation of     *)
(* that container's nested content fails to decode.                         *)

\* line k dedents to strictly between line i (the container's line) and line
\* i + 1 (the first line of its nested content), the container still open
PartialDedentAt(c, i, k) ==
  /\ i + 1 < k
  /\ LeadingSpaces(c[i]) < LeadingSpaces(c[k])
  /\ LeadingSpaces(c[k]) < LeadingSpaces(c[i + 1])
  /\ \A m \in (i + 1)..(k - 1) : LeadingSpaces(c[m]) >= LeadingSpaces(c[i + 1])

HasPartialDedent(doc) ==
  LET c == ContentLines(doc) IN
  \E i \in 1..Len(c), k \in 1..Len(c) : PartialDedentAt(c, i, k)

C3_PartialDedentFails == (Done /\ HasPartialDedent(input)) => Failed

\* a dict nested in a dict, with a nested list of its own at indent 3 and a
\* following line at indent 2: the nested dict reports it
C3_Witness ==
  /\ Done
  /\ Len(input) = 4
  /\ PartialDedentAt(input, 2, 4)
  /\ BodyOf(input[1]) = <<"a", ":">>
  /\ LeadingSpaces(input[2]) = 1
  /\ BodyOf(input[3]) = <<"-">>
  /\ err.msg = "partial dedent"

-----------------------------------------------------------------------------
(* C8: blank lines and comment lines never produce tokens: the document and *)
(* the document without its blank and comment lines decode to the same      *)
(* value, and one decodes successfully iff the other does.                  *)

C8_IgnoredLinesTransparent ==
  Done =>
    LET r == Decode(ContentLines(input)) IN
    /\ result = r.result
    /\ (err = NilErr) <=> (r.err = NilErr)

\* an ignored line between two content lines of a document that decodes
C8_Witness ==
  /\ Done
  /\ Len(input) = 3
  /\ IsContentLine(input[1]) /\ ~IsContentLine(input[2]) /\ IsContentLine(input[3])
  /\ err = NilErr
  /\ result.t = "map"

-----------------------------------------------------------------------------
(* C9: a document whose first content line is indented fails at once, with  *)
(* a format error positioned at that line, column 1, before any token of    *)
(* the line is scanned and before any value is built.                       *)

FirstContentIndented(doc) ==
  LET ix == ContentIndices(doc, 1) IN
  ix # <<>> /\ LeadingSpaces(doc[ix[1]]) > 0

C9_TopLevelIndentFails ==
  (Done /\ FirstContentIndented(input)) =>
    /\ err.msg = "top-level item must not be indented"
    /\ err.Code >= ErrCodeFormat
    /\ err.Line = ContentIndices(input, 1)[1]
    /\ err.Column = 1
    /\ result = Nil
    /\ parser.Stack = <<>>
    /\ parser.Token.TokenType = "DocRoot"

\* the indented first content line is the second line of the input
C9_Witness ==
  /\ Done
  /\ FirstContentIndented(input)
  /\ ContentIndices(input, 1)[1] = 2
  /\ err.Line = 2

-----------------------------------------------------------------------------
(* C7: a run of consecutive '>' lines at the same indentation decodes to    *)
(* one scalar, the payloads of the lines joined by single newlines; the run *)
(* ends at the first line of another type or another indentation.           *)

IsStringLine(l) ==
  LET b == BodyOf(l) IN b = <<">">> \/ (Len(b) >= 2 /\ b[1] = ">" /\ b[2] = " ")

\* the text after '> ', empty for a bare '>'
Payload(l) == LET b == BodyOf(l) IN SubSeq(b, 3, Len(b))

\* the payloads of the lines i..j joined by newlines
RECURSIVE JoinPayloads(_, _, _)
JoinPayloads(c, i, j) ==
  IF i = j THEN Payload(c[i]) ELSE Payload(c[i]) \o <<"\n">> \o JoinPayloads(c, i + 1, j)

SameRun(l1, l2) ==
  IsStringLine(l1) /\ IsStringLine(l2) /\ LeadingSpaces(l1) = LeadingSpaces(l2)

\* the lines i..j are a maximal run of '>' lines at one indentation
IsRun(c, i, j) ==
  /\ i <= j
  /\ IsStringLine(c[i])
  /\ \A m \in i..j : SameRun(c[i], c[m])
  /\ (i > 1 => ~SameRun(c[i - 1], c[i]))
  /\ (j < Len(c) => ~SameRun(c[j], c[j + 1]))

\* the scalars at the leaves of a value
RECURSIVE Scalars(_)
Scalars(v) ==
  CASE v.t = "str" -> {v.v}
    [] v.t = "list" -> UNION { Scalars(v.v[i]) : i \in 1..Len(v.v) }
    [] v.t = "map" -> UNION { Scalars(v.v[k]) : k \in DOMAIN v.v }
    [] OTHER -> {}

C7_MultiStringJoined ==
  (Done /\ ~Failed) =>
    LET c == ContentLines(input) IN
    \A i \in 1..Len(c), j \in 1..Len(c) :
      IsRun(c, i, j) =>
        /\ JoinPayloads(c, i, j) \in Scalars(result)
        /\ (i = 1 /\ j = Len(c)) => result = Str(JoinPayloads(c, i, j))

\* a run of two '>' lines nested in a list whose second item follows the run
C7_Witness ==
  /\ Done /\ ~Failed
  /\ Len(input) = 4
  /\ IsRun(input, 2, 3)
  /\ result.t = "list"
  /\ Len(result.v) = 2

-----------------------------------------------------------------------------
(* C1: keys within one mapping are unique: a block dict whose key lines     *)
(* repeat a key fails with the duplicate-key error, at the top level and    *)
(* nested under a '-' or 'key:' line alike; the key of the enclosing        *)
(* mapping may be used again in the nested one, and a dict of n key lines   *)
(* with pairwise distinct keys decodes to a mapping of n entries.           *)

SimpleKeyBodies == { <<"a", ":", " ", "b">>, <<"a", ":">>, <<"b", ":">> }

HeaderBodies == { <<"-">>, <<"a", ":">>, <<"b", ":">> }

\* the lines after the first h lines all have bodies of the given set and one
\* common indentation: 0 without a header line (h = 0), greater than 0 under
\* a header line at indentation 0 (h = 1)
IsBlockUnder(c, h, bodies) ==
  /\ h < Len(c)
  /\ \A i \in (h + 1)..Len(c) :
       BodyOf(c[i]) \in bodies /\ LeadingSpaces(c[i]) = LeadingSpaces(c[h + 1])
  /\ IF h = 0 THEN LeadingSpaces(c[1]) = 0
     ELSE /\ BodyOf(c[1]) \in HeaderBodies
          /\ LeadingSpaces(c[1]) = 0
          /\ LeadingSpaces(c[h + 1]) > 0

KeyOf(l) == <<BodyOf(l)[1]>>

HasDuplicateKey(c, h) ==
  \E i \in (h + 1)..Len(c), j \in (h + 1)..Len(c) : i < j /\ KeyOf(c[i]) = KeyOf(c[j])

\* the value decoded for the block under the header line
BlockValue(c, h) ==
  IF h = 0 THEN result
  ELSE IF BodyOf(c[1]) = <<"-">> THEN result.v[1]
  ELSE result.v[KeyOf(c[1])]

C1_DuplicateKeyRejected ==
  Done =>
    \A h \in {0, 1} :
      IsBlockUnder(input, h, SimpleKeyBodies) =>
        IF HasDuplicateKey(input, h)
          THEN err.msg = "duplicate key"
          ELSE /\ ~Failed
               /\ BlockValue(input, h).t = "map"
               /\ Cardinality(DOMAIN BlockValue(input, h).v) = Len(input) - h

-----------------------------------------------------------------------------
(* C4: a multi-line key (a run of ':' lines at one indentation) that is     *)
(* followed by a line at the same or a smaller indentation, or by the end   *)
(* of the input, fails with 'multiline key requires a value'.               *)

MultiKeyBodies == { <<":", " ", "a">> }

\* a run of ':' lines (under an optional header line), then at most one
\* line of another type that is not indented more deeply than the run
IsValuelessMultiKey(c, h, n) ==
  /\ n \in {Len(c), Len(c) - 1}
  /\ IsBlockUnder(SubSeq(c, 1, n), h, MultiKeyBodies)
  /\ n < Len(c) =>
       /\ BodyOf(c[Len(c)]) \notin MultiKeyBodies
       /\ LeadingSpaces(c[Len(c)]) <= LeadingSpaces(c[n])

C4_MultilineKeyRequiresValue ==
  Done =>
    \A h \in {0, 1}, n \in 1..Len(input) :
      IsValuelessMultiKey(input, h, n) => err.msg = "multiline key requires a value"

-----------------------------------------------------------------------------
(* C6: in minimal mode an inline-list line, an inline-dict line or a        *)
(* multi-line-key line that the parser reaches fails with the error of its  *)
(* kind, at the top level and nested under '-' and 'key:' lines at any      *)
(* depth; documents of block items only decode as without the mode.         *)

MinimalModeErrors ==
  [ InlineList |-> "inline list syntax is not allowed in minimal mode",
    InlineDict |-> "inline dict syntax is not allowed in minimal mode",
    DictKeyMultiline |-> "multi-line key syntax is not allowed in minimal mode" ]

\* the token type of a line that minimal mode rejects, "" for the other lines
RejectedType(l) ==
  LET b == BodyOf(l) IN
  IF b = <<>> THEN ""
  ELSE IF b[1] = "[" THEN "InlineList"
  ELSE IF b[1] = "{" THEN "InlineDict"
  ELSE IF b[1] = ":" THEN "DictKeyMultiline"
  ELSE ""

\* the lines before the last one are '-' and 'key:' lines, each indented
\* more deeply than the one before it, and the last line is nested in them
IsNestedChain(c) ==
  /\ c # <<>>
  /\ LeadingSpaces(c[1]) = 0
  /\ \A i \in 1..(Len(c) - 1) :
       /\ BodyOf(c[i]) \in {<<"-">>, <<"a", ":">>}
       /\ LeadingSpaces(c[i + 1]) > LeadingSpaces(c[i])

BlockOnly(c) == \A i \in 1..Len(c) : RejectedType(c[i]) = ""

C6_MinimalModeRejects ==
  (Done /\ MinimalMode) =>
    LET c == ContentLines(input) IN
    /\ (IsNestedChain(c) /\ RejectedType(c[Len(c)]) # "") =>
         err.msg = MinimalModeErrors[RejectedType(c[Len(c)])]
    /\ BlockOnly(c) =>
         LET r == ParserParse(NewParser(NewScanner(input, FALSE), FALSE, <<>>)) IN
         result = r.result /\ err = r.err

-----------------------------------------------------------------------------
(* C5: '[]' decodes to the empty sequence and '{}' to the empty mapping;    *)
(* any other inline list with k top-level commas decodes to k + 1 values,   *)
(* each text between two delimiters decoding to that text with the         *)
(* surrounding whitespace removed ('[ ]' is one empty string, '[,]' two).   *)

Openers == {"[", "{"}

Closers == {"]", "}"}

\* the pieces of a text between the occurrences of sep outside of brackets
RECURSIVE SplitTop(_, _, _, _)
SplitTop(t, sep, depth, cur) ==
  IF t = <<>> THEN <<cur>>
  ELSE LET ch == Head(t) IN
       IF ch = sep /\ depth = 0 THEN <<cur>> \o SplitTop(Tail(t), sep, 0, <<>>)
       ELSE SplitTop(Tail(t), sep,
                     depth + (IF ch \in Openers THEN 1 ELSE IF ch \in Closers THEN -1 ELSE 0),
                     Append(cur, ch))

\* the text between the outermost brackets
Interior(text) == SubSeq(text, 2, Len(text) - 1)

HasBracket(seg) == \E i \in 1..Len(seg) : seg[i] \in Openers \cup Closers

C5_InlineListValues ==
  (Done /\ ~Failed) =>
    LET text == input[1]
        segs == SplitTop(Interior(text), ",", 0, <<>>)
    IN /\ text = <<"[", "]">> => result = List(<<>>)
       /\ text = <<"{", "}">> => result = Map(<<>>)
       /\ (text[1] = "[" /\ text # <<"[", "]">>) =>
            /\ result.t = "list"
            /\ Len(result.v) = Len(segs)
            /\ \A n \in 1..Len(segs) :
                 ~HasBracket(segs[n]) => result.v[n] = Str(TrimSpace(segs[n]))

\* a list of three values, the middle one empty and the last one padded
C5_Witness ==
  /\ Done /\ ~Failed
  /\ input[1][1] = "["
  /\ input[1] = <<"[", "a", ",", ",", "a", " ", "]">>
  /\ Len(SplitTop(Interior(input[1]), ",", 0, <<>>)) = 3
  /\ result = List(<<Str(<<"a">>), Str(<<>>), Str(<<"a">>)>>)

-----------------------------------------------------------------------------
(* C10: the value of an inline item mirrors the bracket nesting of its      *)
(* text: every '[...]' is a sequence, every '{...}' a mapping, and a nested *)
(* collection is the next value of the collection around it, under the key  *)
(* before it when that collection is a mapping.                             *)

\* the position of the first ':' outside of brackets, 0 if there is none
RECURSIVE FirstColon(_, _, _)
FirstColon(seg, i, depth) ==
  IF i > Len(seg) THEN 0
  ELSE IF seg[i] = ":" /\ depth = 0 THEN i
  ELSE FirstColon(seg, i + 1,
                  depth + (IF seg[i] \in Openers THEN 1 ELSE IF seg[i] \in Closers THEN -1 ELSE 0))

\* the value a bracketed text denotes, read off its bracket structure
RECURSIVE RefValue(_)
RECURSIVE RefItem(_)
RefItem(seg) ==
  LET t == TrimSpace(seg) IN
  IF t # <<>> /\ t[1] \in Openers THEN RefValue(t) ELSE Str(t)

RefValue(text) ==
  LET segs == SplitTop(Interior(text), ",", 0, <<>>)
      colon(n) == FirstColon(segs[n], 1, 0)
      key(n) == TrimSpace(SubSeq(segs[n], 1, colon(n) - 1))
  IN IF text[1] = "["
       THEN IF Interior(text) = <<>> THEN List(<<>>)
            ELSE List([n \in 1..Len(segs) |-> RefItem(segs[n])])
       ELSE IF Interior(text) = <<>> THEN Map(<<>>)
            ELSE IF \E n \in 1..Len(segs) : colon(n) = 0 THEN Nil
            ELSE Map([k \in {key(n) : n \in 1..Len(segs)} |->
                        LET n == CHOOSE n \in 1..Len(segs) : key(n) = k
                        IN RefItem(SubSeq(segs[n], colon(n) + 1, Len(segs[n])))])

C10_InlineMirrorsNesting == (Done /\ ~Failed) => result = RefValue(input[1])

\* a sequence nested in a mapping under its key, as in '{a:[a]}'
C10_Witness ==
  /\ Done /\ ~Failed
  /\ input[1] = <<"{", "a", ":", "[", "a", "]", "}">>
  /\ result = Map([k \in {<<"a">>} |-> List(<<Str(<<"a">>)>>)])

-----------------------------------------------------------------------------
(* C12: Parse returns a value or an error, never both: when the returned    *)
(* error is non-nil the returned value is nil.                              *)
(*                                                                          *)
(* Parser.Parse returns parseDocument's result unchanged when err is set,   *)
(* and parseDocument sets the 'unused content' error next to the result of  *)
(* parseAny; parseDict and parseMultiString likewise return what they have  *)
(* built together with an error.                                            *)

C12_ValueOrError == (Done /\ Failed) => result = Nil

-----------------------------------------------------------------------------
(* C13: every error of a scanning step or a structural parsing step (top-   *)
(* level indent, partial dedent, invalid indent after a valued item,        *)
(* multiline key without value, duplicate key, unused content, minimal-mode *)
(* rejection) carries a line number greater than zero.                      *)
(*                                                                          *)
(* The parser makes 'invalid indent', 'partial dedent', 'multiline key      *)
(* requires a value' and 'duplicate key' with MakeFormatError, which has no *)
(* token and leaves Line and Column at 0.                                   *)

C13_ErrorsCarryLine == (Done /\ Failed /\ err.Code # ErrCodeIO) => err.Line > 0

-----------------------------------------------------------------------------
(* C14: a malformed document is never reported with the I/O error code;     *)
(* every failure caused by the text itself, including an inline list or     *)
(* dict whose brackets are still open when the line ends, yields a format   *)
(* error, and the I/O code occurs only when the reader failed.              *)
(*                                                                          *)
(* InlineItemParser.Parse wraps the io.EOF that ReadRune returns at the end *)
(* of the line's text with WrapIOError.                                     *)

C14_TextErrorsAreFormatErrors ==
  (Done /\ Failed /\ ~reader.fails) => err.Code # ErrCodeIO

-----------------------------------------------------------------------------
(* C15: if the reader fails with a non-EOF error at any point of the input, *)
(* also on the very first read before any line was obtained, Parse returns  *)
(* without panicking an error with the I/O code whose Unwrap yields the     *)
(* reader's error.                                                          *)
(*                                                                          *)
(* When the first Scan fails, AdvanceLine returns before buf.Line is set    *)
(* and the first NextToken dereferences it in IsEof. When the line read     *)
(* last before the failure is empty, IsEof holds and NextToken reports EOF  *)
(* instead of buf.LastError.                                                *)

Returned == pc \in {"done", "panicked"}

C15_ReaderFailureReported ==
  (Returned /\ reader.fails) =>
    (Done /\ err.Code = ErrCodeIO /\ err.wrapped = ReadFailure)

-----------------------------------------------------------------------------
(* Reading the bytes of a document, independently of the split function.    *)

\* the position of the first CR or LF of data, 0 if there is none
FirstBreak(data) ==
  IF \E i \in 1..Len(data) : data[i] \in {CR, LF}
    THEN CHOOSE i \in 1..Len(data) :
           data[i] \in {CR, LF} /\ \A j \in 1..(i - 1) : data[j] \notin {CR, LF}
    ELSE 0

\* the separator that starts at position i of data
BreakAt(data, i) ==
  IF data[i] = CR /\ i < Len(data) /\ data[i + 1] = LF THEN <<CR, LF>> ELSE <<data[i]>>

\* the lines of data, each with the separator that ends it; the last one
\* has none
RECURSIVE RefSplit(_)
RefSplit(data) ==
  LET i == FirstBreak(data) IN
  IF i = 0 THEN << [line |-> data, sep |-> <<>>] >>
  ELSE << [line |-> SubSeq(data, 1, i - 1), sep |-> BreakAt(data, i)] >>
       \o RefSplit(SubSeq(data, i + Len(BreakAt(data, i)), Len(data)))

\* the bytes of lines with their separators
RECURSIVE RefJoin(_)
RefJoin(recs) ==
  IF recs = <<>> THEN <<>> ELSE Head(recs).line \o Head(recs).sep \o RefJoin(Tail(recs))

\* the logical lines of data: what is left after the last separator is a
\* line only if it is not empty
RefLines(data) ==
  LET r == RefSplit(data)
      n == IF r[Len(r)].line = <<>> THEN Len(r) - 1 ELSE Len(r)
  IN [i \in 1..n |-> r[i].line]

-----------------------------------------------------------------------------
(* C18: decoding an input that has no content line (zero bytes, or only     *)
(* blank and comment lines) succeeds with no value (nil) and no error.      *)

NoContentLine(data) ==
  \A i \in 1..Len(RefLines(data)) : ~IsContentLine(RefLines(data)[i])

C18_NoContentIsNil ==
  (Done /\ ~reader.fails /\ NoContentLine(reader.data)) =>
    (result = Nil /\ err = NilErr)

\* a comment line and a blank line, ended by LF and by CR LF
C18_Witness ==
  /\ Done /\ ~reader.fails
  /\ reader.data = <<"#", "a", LF, " ", CR, LF>>
  /\ input = << <<"#", "a">>, <<" ">> >>
  /\ result = Nil /\ err = NilErr

-----------------------------------------------------------------------------
(* C17: CR LF, bare CR and bare LF are equivalent line separators, also     *)
(* when mixed in one document: the split function delivers the logical      *)
(* lines of the bytes, and replacing any separator occurrence by any of the *)
(* three leaves the lines, and with them the decoded value or error,        *)
(* unchanged. (A replacement that joins a CR with a following LF, or a LF   *)
(* with a preceding CR, makes one separator of two and is not a replacement *)
(* of one occurrence.)                                                      *)

\* data with the separator after its i-th line replaced by s
ReplaceSep(data, i, s) == RefJoin([RefSplit(data) EXCEPT ![i].sep = s])

C17_SeparatorsEquivalent ==
  (Done /\ ~reader.fails) =>
    /\ input = RefLines(reader.data)
    /\ \A i \in 1..(Len(RefSplit(reader.data)) - 1), s \in Seps :
         LET d == ReplaceSep(reader.data, i, s) IN
         RefLines(d) = RefLines(reader.data) =>
           /\ ScanAll(d, FALSE) = input
           /\ Decode(ScanAll(d, FALSE)) = [p |-> parser, result |-> result, err |-> err]

\* three list items ended by CR, by CR LF and by LF
C17_Witness ==
  /\ Done /\ ~reader.fails
  /\ reader.data = <<"-", " ", "a", CR, "-", " ", "a", CR, LF, "-", " ", "a", LF>>
  /\ Len(input) = 3
  /\ result = List(<<Str(<<"a">>), Str(<<"a">>), Str(<<"a">>)>>)

-----------------------------------------------------------------------------
(* C16: a byte order mark at the very start of the document is consumed     *)
(* once and never exposed: decoding BOM+D gives the same outcome as         *)
(* decoding D, and the BOM appears in no token content, in particular not   *)
(* in a dict key scanned from the first line and not in front of a '#'      *)
(* that starts a first-line comment.                                        *)
(*                                                                          *)
(* NewLineBuffer advances the cursor over the mark, but buf.Text keeps its  *)
(* bytes: ScanInlineKey slices the key out of buf.Text from token.Indent    *)
(* on, IsIgnoredLine matches its patterns against buf.Text, and             *)
(* buf.Line.Size() counts them.                                             *)

HasBOM(doc) == doc # <<>> /\ Len(doc[1]) >= Len(BOM) /\ SubSeq(doc[1], 1, Len(BOM)) = BOM

StripBOM(doc) == [doc EXCEPT ![1] = SubSeq(doc[1], Len(BOM) + 1, Len(doc[1]))]

C16_BOMConsumed ==
  (Done /\ HasBOM(input)) =>
    /\ Decode(StripBOM(input)).result = result
    /\ Decode(StripBOM(input)).err.Code = err.Code
    /\ Decode(StripBOM(input)).err.msg = err.msg

-----------------------------------------------------------------------------
(* C11: round-trip law: for every value produced by decoding valid input    *)
(* (including empty sequences, empty mappings, empty strings and keys that  *)
(* came from multi-line keys), encoding it and decoding the encoder's       *)
(* output succeeds and yields a value equal to the original, mapping key    *)
(* order ignored.                                                           *)
(*                                                                          *)
(* A mapping is a function of its keys, so equality ignores the key order.  *)

RECURSIVE ValueEq(_, _)
ValueEq(a, b) ==
  /\ a.t = b.t
  /\ CASE a.t = "str" -> a.v = b.v
       [] a.t = "list" ->
            /\ Len(a.v) = Len(b.v)
            /\ \A i \in 1..Len(a.v) : ValueEq(a.v[i], b.v[i])
       [] a.t = "map" ->
            /\ DOMAIN a.v = DOMAIN b.v
            /\ \A k \in DOMAIN a.v : ValueEq(a.v[k], b.v[k])
       [] OTHER -> TRUE

C11_RoundTrip ==
  pc = "redecoded" => (redecoded.err = NilErr /\ ValueEq(redecoded.result, result))

-----------------------------------------------------------------------------
(* The last line of a deeply nested document: the blocks that enclose it    *)
(* and the nesting of its brackets.                                         *)

\* the number of spaces before the first other character of the line l
FirstColumn(l) ==
  Bind({i \in 1..Len(l) : l[i] # " "}, LAMBDA S :
    (CHOOSE i \in S : \A j \in S : i <= j) - 1)

\* the number of blocks that enclose the last line: one per space of its
\* indentation
EnclosingDepth == FirstColumn(input[1])

\* the last line without its indentation
LastBody == SubSeq(input[1], EnclosingDepth + 1, Len(input[1]))

\* the number of brackets open after the first i characters of s
OpenAt(s, i) ==
  Cardinality({j \in 1..i : s[j] \in {"[", "{"}})
    - Cardinality({j \in 1..i : s[j] \in {"]", "}"}})

\* the deepest bracket nesting of s
BracketNesting(s) ==
  CHOOSE n \in 0..Len(s) :
    /\ \E i \in 0..Len(s) : OpenAt(s, i) = n
    /\ \A i \in 0..Len(s) : OpenAt(s, i) <= n

-----------------------------------------------------------------------------
(* C19: the structural parser enforces a fixed nesting ceiling: the number  *)
(* of simultaneously active parseAny invocations never exceeds              *)
(* maxNestingDepth, a document whose block nesting would need more fails    *)
(* with the format error 'exceeded max nesting depth', and a document whose *)
(* nesting stays within the ceiling is never rejected for depth.            *)
(*                                                                          *)
(* The last line needs one invocation of parseAny more than the blocks that *)
(* enclose it.                                                              *)

DepthError == "exceeded max nesting depth"

C19_NestingCeiling ==
  /\ parser.depth <= maxNestingDepth
  /\ (Done /\ EnclosingDepth + 1 > maxNestingDepth) =>
       (err.Code = ErrCodeFormat /\ err.msg = DepthError)
  /\ (pc # "calling" /\ EnclosingDepth + 1 <= maxNestingDepth) =>
       err.msg # DepthError

-----------------------------------------------------------------------------
(* C20: inline nesting on one line is bounded by the same nesting-depth     *)
(* guard: an inline item whose bracket nesting, added to the depth of the   *)
(* enclosing block structure, exceeds the ceiling fails with the            *)
(* nesting-depth error.                                                     *)

C20_InlineNestingBounded ==
  (pc = "returning" /\ EnclosingDepth + BracketNesting(LastBody) > maxNestingDepth)
    => err.msg = DepthError

-----------------------------------------------------------------------------
(* C21: after one complete top-level value has been parsed, the next token  *)
(* must be end of input: any remaining content line (for example a ':' line *)
(* after a top-level multi-line string, or a dict key after a top-level     *)
(* list) makes decoding fail with 'unused content following valid input'.   *)
(*                                                                          *)
(* A top-level value is complete before a line that cannot continue it: a   *)
(* line after an inline item, or an unindented line of another kind than    *)
(* the first line, where the lines before it decode to a value.             *)

\* the kind of value a content line belongs to
KindOf(l) ==
  CASE BodyOf(l)[1] = "-" -> "list"
    [] BodyOf(l)[1] = ">" -> "string"
    [] BodyOf(l)[1] \in {"[", "{"} -> "inline"
    [] OTHER -> "dict"

\* the content line k of c follows a complete top-level value
FollowsTopLevelValue(c, k) ==
  /\ LeadingSpaces(c[1]) = 0
  /\ \/ KindOf(c[1]) = "inline"
     \/ LeadingSpaces(c[k]) = 0 /\ KindOf(c[k]) # KindOf(c[1])
  /\ Decode(SubSeq(c, 1, k - 1)).err = NilErr

UnusedContent == "unused content following valid input"

C21_UnusedContentFails ==
  Done => \A k \in 2..Len(ContentLines(input)) :
            FollowsTopLevelValue(ContentLines(input), k)
              => (err.Code = ErrCodeFormat /\ err.msg = UnusedContent)

\* the same, where in minimal mode a multi-line key line may be rejected
\* for its syntax by the dict that ends before it
MultiKeyRejected == "multi-line key syntax is not allowed in minimal mode"

C21_UnusedContentOrRejected ==
  Done => \A k \in 2..Len(ContentLines(input)) :
            FollowsTopLevelValue(ContentLines(input), k)
              => /\ err.Code = ErrCodeFormat
                 /\ \/ err.msg = UnusedContent
                    \/ /\ MinimalMode
                       /\ BodyOf(ContentLines(input)[k])[1] = ":"
                       /\ err.msg = MultiKeyRejected

\* '> a' followed by ': a', and '- a' followed by 'a: b'
C21_Witness ==
  /\ Done
  /\ input \in { << <<">", " ", "a">>, <<":", " ", "a">> >>,
                 << <<"-", " ", "a">>, <<"a", ":", " ", "b">> >> }
  /\ err.msg = UnusedContent

-----------------------------------------------------------------------------
(* C22: concurrent Parse calls on independent readers share no mutable      *)
(* state: the blank-line and comment-line patterns are initialised at most  *)
(* once, and in no interleaving of two calls can one call observe the cache *)
(* half initialised (blank pattern set, comment pattern still unset) and    *)
(* use an unset pattern.                                                    *)

\* the goroutines that have compiled the patterns
Initialisers == {g \in DOMAIN goroutines : goroutines[g].compiled}

C22_PatternCacheSafe ==
  /\ Cardinality(Initialisers) <= 1
  /\ \A g \in DOMAIN goroutines : goroutines[g].pc # "panicked"

-----------------------------------------------------------------------------
(* C23: top-level forcing is a pure post-processing step applied only after *)
(* a successful parse: with force-as-sequence the result is always a        *)
(* sequence (a sequence is returned unchanged, anything else is wrapped in  *)
(* a one-element sequence), with force-as-mapping the result is always a    *)
(* mapping (a mapping is returned unchanged, anything else is wrapped under *)
(* a single key), and with no forcing the parse result is returned          *)
(* unchanged.                                                               *)

\* the outcome of decoding the document without any option
Natural == Decode(input)

\* v is a mapping whose only entry has the value x
SingleEntry(v, x) ==
  /\ v.t = "map"
  /\ \E k \in DOMAIN v.v : DOMAIN v.v = {k} /\ v.v[k] = x

C23_TopLevelForcing ==
  (Done /\ opts \in {<<>>, <<TopLevelList>>, <<TopLevelDict>>}) =>
    /\ err = Natural.err
    /\ Failed => result = Natural.result
    /\ ~Failed =>
         CASE opts = <<>> -> result = Natural.result
           [] opts = <<TopLevelList>> ->
                /\ result.t = "list"
                /\ result = IF Natural.result.t = "list" THEN Natural.result
                            ELSE List(<<Natural.result>>)
           [] opts = <<TopLevelDict>> ->
                /\ result.t = "map"
                /\ IF Natural.result.t = "map" THEN result = Natural.result
                   ELSE SingleEntry(result, Natural.result)

\* '> a' decoded with TopLevel("list"), '- a' decoded with TopLevel("dict")
C23_Witness ==
  /\ Done
  /\ ~Failed
  /\ \/ opts = <<TopLevelList>> /\ Natural.result.t = "str" /\ result = List(<<Natural.result>>)
     \/ opts = <<TopLevelDict>> /\ Natural.result.t = "list"
          /\ SingleEntry(result, Natural.result)

-----------------------------------------------------------------------------
(* C24: for every suffix s, the option TopLevel("dict." + s) makes a        *)
(* successful Parse return a mapping with exactly one entry whose key is s  *)
(* and whose value is the natural parse result, also when that result is    *)
(* itself a mapping; this holds for every s, including s = "list",          *)
(* s = "dict" and the empty suffix.                                         *)

C24_DictSuffixWraps ==
  (Done /\ Len(opts) = 1 /\ HasPrefix(opts[1], DictPrefix) /\ Natural.err = NilErr) =>
    /\ err = NilErr
    /\ result.t = "map"
    /\ DOMAIN result.v = { Slice(opts[1], 5, Len(opts[1])) }
    /\ result.v[Slice(opts[1], 5, Len(opts[1]))] = Natural.result

-----------------------------------------------------------------------------
(* C25: the error returned for an indented top-level item carries the code  *)
(* ErrCodeFormatToplevelIndent, which differs from ErrCodeFormatNoInput     *)
(* (reserved for a missing input) and from the generic ErrCodeFormat; every *)
(* format-rooted error has a code greater than or equal to ErrCodeFormat.   *)

C25_TopLevelIndentCode ==
  /\ ErrCodeFormatToplevelIndent \notin {ErrCodeFormatNoInput, ErrCodeFormat}
  /\ (Done /\ Failed /\ err.Code \notin {ErrCodeUsage, ErrCodeIO}) => err.Code >= ErrCodeFormat
  /\ (Done /\ FirstContentIndented(input)) => err.Code = ErrCodeFormatToplevelIndent

-----------------------------------------------------------------------------
(* C26: the encoder's inline limit is a threshold above which lists are     *)
(* never inlined: for every list value, of any element type, whose items'   *)
(* total length exceeds the configured limit, the encoder emits block       *)
(* '- item' lines and never the inline '[a, b]' form, so a small limit      *)
(* suppresses inlining altogether.                                          *)

\* the text of an item of the list v
ItemText(v, i) ==
  CASE v.t = "[]string" -> v.v[i]
    [] v.t = "[]int" -> Itoa(v.v[i])
    [] OTHER -> v.v[i].v

\* the total length of the items i.. of the list v
RECURSIVE ItemsLength(_, _)
ItemsLength(v, i) ==
  IF i > Len(v.v) THEN 0 ELSE Len(ItemText(v, i)) + ItemsLength(v, i + 1)

\* the first bytes of the lines of the text b
LineStarts(b) == { b[i] : i \in {j \in 1..Len(b) : j = 1 \/ b[j - 1] = LF} }

\* every line is a '- item' line or an indented line of an item's block
C26_InlineLimitSuppresses ==
  (pc = "written" /\ ItemsLength(encodeArg, 1) > inlineLimit) =>
    LineStarts(encoded) \subseteq {"-", " "}

-----------------------------------------------------------------------------
(* Scanning single lines: documents made of a valid prefix followed by one  *)
(* line over a small alphabet, read either by Parse or token by token the   *)
(* way the scanner's callers (Parser.parseDocument, the scanner tests) call *)
(* Scanner.NextToken until EOF or a token with an error.                    *)

ScanAlphabet == {"-", ">", ":", " ", "a", "\t"}

ScanPrefixes ==
  { <<>>,
    << <<"a", ":">> >>,
    << <<"-">> >>,
    << <<"-">>, <<" ", "-", " ", "a">> >> }

InitScan ==
  /\ \E prefix \in ScanPrefixes : \E n \in 0..MaxScanLen : \E line \in [1..n -> ScanAlphabet] :
       input = Append(prefix, line)
  /\ MinimalMode = FALSE
  /\ InitCall

\* one call of p.Sc.NextToken() by a caller that stops at EOF or an error
ScanNextToken ==
  /\ pc \in {"scanning", "tokens"}
  /\ ~IsEofPanics(parser.Sc.Buf)
  /\ \E p \in {Advance(parser)} :
       /\ parser' = p
       /\ pc' = IF p.Token.TokenType = "EOF" \/ p.Token.Error # NilErr
                  THEN "scanned" ELSE "tokens"
  /\ UNCHANGED <<reader, input, MinimalMode, result, err, encoded, redecoded,
               opts, blankPattern, commentPattern, goroutines, encodeArg, inlineLimit, inlineCall>>

NextScan == CreateScanner \/ ParseDocument \/ ScanNextToken

SpecScan == InitScan /\ [][NextScan]_vars

\* a token of a content line has been returned by NextToken
TokenScanned ==
  /\ pc \in {"tokens", "scanned"}
  /\ parser.Token.TokenType \notin {"DocRoot", "EmptyDocument", "EOF"}
  /\ parser.Token.LineNo \in 1..Len(input)

\* the line of the token, and the line from its first non-space character
TokenLine == input[parser.Token.LineNo]

TokenBody == Slice(TokenLine, LeadingSpaces(TokenLine), Len(TokenLine))

-----------------------------------------------------------------------------
(* C27: a line whose first non-space character is '-', '>' or ':' is a     *)
(* list-item, string or key tag only if that character is immediately       *)
(* followed by a space or the end of the line; otherwise the whole line,    *)
(* starting at that character, is scanned as a dict key line, so '-:: a'    *)
(* yields the key '-:' with the value 'a', and a line such as '-a' without  *)
(* a terminating ':' is a lexical error.                                    *)

TagChars == {"-", ">", ":"}

\* the tag character is followed by a space or the end of the line
IsTagLine(body) == Len(body) = 1 \/ body[2] = " "

\* the token type of a tag line
TagType(body) ==
  CASE body[1] = "-" -> IF Len(body) = 1 THEN "ListItemMultiline" ELSE "ListItem"
    [] body[1] = ">" -> "StringMultiline"
    [] body[1] = ":" -> "DictKeyMultiline"

\* the position of the first ':' followed by a space or the end of the line, 0 for none
KeyEnd(body) ==
  Bind({ i \in 1..Len(body) : body[i] = ":" /\ (i = Len(body) \/ body[i + 1] = " ") },
       LAMBDA ends : IF ends = {} THEN 0
                     ELSE CHOOSE i \in ends : \A j \in ends : i <= j)

NotTerminated == "dict key item not properly terminated by ':'"

C27_TagNeedsSpaceOrEOL ==
  (TokenScanned /\ TokenBody # <<>> /\ TokenBody[1] \in TagChars) =>
    IF IsTagLine(TokenBody)
      THEN /\ parser.Token.Error = NilErr
           /\ parser.Token.TokenType = TagType(TokenBody)
    ELSE IF KeyEnd(TokenBody) = 0
      THEN /\ parser.Token.Error # NilErr
           /\ parser.Token.Error.msg = NotTerminated
      ELSE /\ parser.Token.Error = NilErr
           /\ parser.Token.TokenType \in {"InlineDictKeyValue", "InlineDictKey"}
           /\ parser.Token.Content[1] = TrimSpace(Slice(TokenBody, 0, KeyEnd(TokenBody) - 1))
           /\ Head(parser.Token.Content[1]) = TokenBody[1]

\* the line '-:: a' has been scanned as the key '-:' with the value 'a'
C27_Witness ==
  /\ TokenScanned
  /\ TokenLine = <<"-", ":", ":", " ", "a">>
  /\ parser.Token.TokenType = "InlineDictKeyValue"
  /\ parser.Token.Content = << <<"-", ":">>, <<"a">> >>

-----------------------------------------------------------------------------
(* C28: on a dict key line the key ends at the first ':' that is followed   *)
(* by a space or by the end of the line; a ':' followed by any other        *)
(* character is part of the key. The key is the text from the first         *)
(* non-indent character up to that ':' with surrounding whitespace trimmed, *)
(* the value is the unmodified rest of the line after ': ', the token is    *)
(* key-with-value if a space followed the ':' and key-only if the line      *)
(* ended there, and a line that ends without such a ':' carries the error   *)
(* 'not properly terminated by ':''.                                        *)

\* the line is scanned by ScanInlineKey: it starts neither with whitespace nor with a tag
KeyLine(body) ==
  /\ body # <<>>
  /\ ~IsSpace(body[1])
  /\ ~(body[1] \in TagChars /\ IsTagLine(body))

C28_KeyEndsAtColonSpace ==
  (TokenScanned /\ KeyLine(TokenBody)) =>
    IF KeyEnd(TokenBody) = 0
      THEN /\ parser.Token.Error # NilErr
           /\ parser.Token.Error.msg = NotTerminated
      ELSE /\ parser.Token.Error = NilErr
           /\ parser.Token.Content[1] = TrimSpace(Slice(TokenBody, 0, KeyEnd(TokenBody) - 1))
           /\ IF KeyEnd(TokenBody) = Len(TokenBody)
                THEN /\ parser.Token.TokenType = "InlineDictKey"
                     /\ Len(parser.Token.Content) = 1
                ELSE /\ parser.Token.TokenType = "InlineDictKeyValue"
                     /\ parser.Token.Content =
                          << TrimSpace(Slice(TokenBody, 0, KeyEnd(TokenBody) - 1)),
                             Slice(TokenBody, KeyEnd(TokenBody) + 1, Len(TokenBody)) >>

\* the line 'a:: a' has been scanned as the key 'a:' with the value 'a'
C28_Witness ==
  /\ TokenScanned
  /\ TokenLine = <<"a", ":", ":", " ", "a">>
  /\ parser.Token.TokenType = "InlineDictKeyValue"
  /\ parser.Token.Content = << <<"a", ":">>, <<"a">> >>

-----------------------------------------------------------------------------
(* C29: only ASCII spaces count as indentation: a content line in which a   *)
(* tab or another non-space whitespace character occurs within the leading  *)
(* indentation, or as the first character of the line, makes decoding fail  *)
(* with 'invalid character in indentation', and the indent recorded in      *)
(* every successfully scanned token equals the number of leading ASCII      *)
(* spaces of its line.                                                      *)

InvalidIndentation == "invalid character in indentation"

\* the last line of the document, from its first non-space character
LastLineBody ==
  Slice(input[Len(input)], LeadingSpaces(input[Len(input)]), Len(input[Len(input)]))

\* the last line is a content line whose leading spaces are followed by a tab
TabInIndentation ==
  /\ LastLineBody # <<>>
  /\ LastLineBody[1] = "\t"
  /\ ~IsIgnoredText(input[Len(input)])

C29_OnlySpacesIndent ==
  /\ (Done /\ TabInIndentation /\ ~FirstContentIndented(input)) =>
       (Failed /\ err.msg = InvalidIndentation)
  /\ (TokenScanned /\ parser.Token.Error = NilErr) =>
       parser.Token.Indent = LeadingSpaces(TokenLine)

-----------------------------------------------------------------------------
(* C30: an item without a value on its own line gets the empty string when  *)
(* nothing deeper follows: a bare '-' list item, or a single-line 'key:'    *)
(* line, whose next token is at the same or a smaller indentation (or is    *)
(* the end of input) has the value ""; otherwise its value is the result of *)
(* parsing the following block at that block's deeper indentation.          *)

\* the document starts with an unindented '-' or 'key:' line
FirstLineBare ==
  /\ input # <<>>
  /\ input[1] \in {<<"-">>, <<"a", ":">>, <<"b", ":">>}

\* the value the result holds for the item of the first line
FirstItemValue ==
  IF result.t = "list" THEN result.v[1] ELSE result.v[<<input[1][1]>>]

\* the lines i.. of the document up to the next unindented line
RECURSIVE BlockFrom(_, _)
BlockFrom(doc, i) ==
  IF i > Len(doc) \/ LeadingSpaces(doc[i]) = 0 THEN <<>>
  ELSE <<doc[i]>> \o BlockFrom(doc, i + 1)

\* the block with the indentation of its first line taken off every line
Dedent(block) ==
  [i \in 1..Len(block) |->
     IF LeadingSpaces(block[i]) < LeadingSpaces(block[1]) THEN block[i]
     ELSE Slice(block[i], LeadingSpaces(block[1]), Len(block[i]))]

C30_BareItemValue ==
  (Done /\ ~Failed /\ FirstLineBare) =>
    /\ result.t = IF input[1] = <<"-">> THEN "list" ELSE "map"
    /\ IF result.t = "list" THEN result.v # <<>> ELSE <<input[1][1]>> \in DOMAIN result.v
    /\ IF Len(input) = 1 \/ LeadingSpaces(input[2]) = 0
         THEN FirstItemValue = Str(<<>>)
         ELSE Bind(Decode(Dedent(BlockFrom(input, 2))), LAMBDA block :
                block.err = NilErr /\ FirstItemValue = block.result)

\* '-' followed by ' a:': the item is the block's mapping, whose key has the value ""
C30_Witness ==
  /\ Done
  /\ ~Failed
  /\ input = << <<"-">>, <<" ", "a", ":">> >>
  /\ result.t = "list"
  /\ result.v[1].t = "map"
  /\ result.v[1].v[<<"a">>] = Str(<<>>)

-----------------------------------------------------------------------------
(* InlineItemParser.Parse called on its own (as the tests of the inline     *)
(* parser call it), one loop iteration per step. The instance is            *)
(* parser.Inline; inlineCall holds the call's local variables; `input`      *)
(* holds the texts handed to successive calls on the same instance. The     *)
(* start state is StateS1 for a text that starts with '{' and StateS2       *)
(* otherwise, as parseAny chooses it.                                       *)

\* characters of a text after its opening bracket
MaxInlineText == 4

\* lines of a document that may end in a line the scanner rejects
MaxStoppedLines == 3

\* characters of the second text handed to a used instance
MaxReuseText == 3

InlineOpeners == {"[", "{"}

InlineTexts(n) ==
  UNION { { <<o>> \o m : m \in [1..k -> InlineAlphabet] } : o \in InlineOpeners, k \in 0..n }

\* texts of an earlier call: one that succeeds, an unclosed list and an unclosed
\* dict whose key is set (both end with frames left on the stack), a duplicate key
EarlierTexts ==
  { <<"[", "a", "]">>, <<"[", "[", "a">>, <<"{", "a", ":">>,
    <<"{", "a", ":", ",", "a", ":", "}">> }

StartState(text) == IF text[1] = "{" THEN StateS1 ELSE StateS2

\* one iteration of the loop of InlineItemParser.Parse: returns the parser, the
\* state, the result and how the iteration ends: "next", "break" or "return"
InlineIteration(ip, state0, res) ==
  IF ip.TextPosition >= Len(ip.Text)
    THEN [ip |-> ip, state |-> state0, result |-> Nil, exit |-> "return"]
  ELSE
    Bind(ip.Text[ip.TextPosition + 1], LAMBDA ch :
    Bind(Delta(state0, InlineTokenFor(ch)), LAMBDA s1 :
      IF IsErrorState(s1) THEN [ip |-> ip, state |-> s1, result |-> res, exit |-> "break"]
      ELSE
        Bind(IF IsNonterm(s1) THEN Delta(s1, InlineTokenFor(ch)) ELSE s1, LAMBDA state :
        Bind(InlineAction(
               IF IsNonterm(s1)
                 THEN Bind(inlinePushNonterm(ip, s1), LAMBDA pushed :
                        [pushed EXCEPT !.Stack = SetTos(pushed.Stack,
                           [Tos(pushed.Stack) EXCEPT
                              !.NontermState = Delta(state0, stateIndex(s1))])])
                 ELSE ip,
               state0, state, ch, 1),
             LAMBDA a :
          IF ~a.ok THEN [ip |-> a.ip, state |-> StateError, result |-> res, exit |-> "break"]
          ELSE IF IsAccept(state)
            THEN Bind(ReduceToItem(Tos(a.ip.Stack)), LAMBDA red :
                 Bind(Pop(a.ip.Stack), LAMBDA popped :
                   IF Len(popped) > 0
                     THEN Bind(PushKV(popped, Tos(popped).Key, red), LAMBDA r :
                            IF r.err # NilErr
                              THEN [ip |-> [a.ip EXCEPT !.Stack =
                                              SetTos(popped, [Tos(popped) EXCEPT !.Error = r.err])],
                                    state |-> StateError, result |-> red, exit |-> "break"]
                              ELSE [ip |-> [a.ip EXCEPT !.Stack = r.stack,
                                                        !.TextPosition = ip.TextPosition + 1],
                                    state |-> Tos(a.ip.Stack).NontermState,
                                    result |-> red, exit |-> "next"])
                     ELSE [ip |-> [a.ip EXCEPT !.Stack = popped,
                                               !.TextPosition = ip.TextPosition + 1],
                           state |-> Tos(a.ip.Stack).NontermState,
                           result |-> red, exit |-> "next"]))
            ELSE [ip |-> [a.ip EXCEPT !.TextPosition = ip.TextPosition + 1],
                  state |-> state, result |-> res, exit |-> "next"]))))

InitInlineCall ==
  /\ input \in { <<t>> : t \in InlineTexts(MaxInlineText) }
  /\ MinimalMode = FALSE
  /\ pc = "inline"
  /\ reader = [data |-> <<>>, fails |-> FALSE]
  /\ NotStarted

InitInlineReuse ==
  /\ input \in { <<e, t>> : e \in EarlierTexts, t \in InlineTexts(MaxReuseText) }
  /\ MinimalMode = FALSE
  /\ pc = "inline"
  /\ reader = [data |-> <<>>, fails |-> FALSE]
  /\ NotStarted

\* the start of Parse without the truncation of the stack
InlineBegin_KeepStack ==
  /\ pc = "inline"
  /\ inlineCall.at \in {"idle", "returned"}
  /\ inlineCall.n < Len(input)
  /\ \E text \in {input[inlineCall.n + 1]} :
       /\ parser' = [parser EXCEPT !.Inline =
                       inlinePushNonterm([parser.Inline EXCEPT !.Text = text,
                                                               !.TextPosition = 0, !.Marker = 0],
                                         StartState(text))]
       /\ inlineCall' = [n |-> inlineCall.n + 1, state |-> StartState(text),
                         result |-> Nil, at |-> "loop"]
  /\ UNCHANGED <<reader, input, MinimalMode, pc, result, err, encoded, redecoded,
                 opts, blankPattern, commentPattern, goroutines, encodeArg, inlineLimit>>

\* Parse up to its loop: the text is set, the stack truncated, the start state pushed
InlineBegin ==
  /\ pc = "inline"
  /\ inlineCall.at \in {"idle", "returned"}
  /\ inlineCall.n < Len(input)
  /\ \E text \in {input[inlineCall.n + 1]} :
       /\ parser' = [parser EXCEPT !.Inline =
                       inlinePushNonterm([parser.Inline EXCEPT !.Text = text, !.Stack = <<>>,
                                                               !.TextPosition = 0, !.Marker = 0],
                                         StartState(text))]
       /\ inlineCall' = [n |-> inlineCall.n + 1, state |-> StartState(text),
                         result |-> Nil, at |-> "loop"]
  /\ UNCHANGED <<reader, input, MinimalMode, pc, result, err, encoded, redecoded,
                 opts, blankPattern, commentPattern, goroutines, encodeArg, inlineLimit>>

\* one iteration of the loop; a failed ReadRune returns from Parse at once
InlineIterate ==
  /\ pc = "inline"
  /\ inlineCall.at = "loop"
  /\ Len(parser.Inline.Stack) > 0
  /\ \E it \in {InlineIteration(parser.Inline, inlineCall.state, inlineCall.result)} :
       /\ parser' = [parser EXCEPT !.Inline = it.ip]
       /\ inlineCall' = [inlineCall EXCEPT
                           !.state = it.state, !.result = it.result,
                           !.at = CASE it.exit = "next" -> "loop"
                                    [] it.exit = "break" -> "broken"
                                    [] it.exit = "return" -> "returned"]
       /\ IF it.exit = "return"
            THEN /\ result' = Nil
                 /\ err' = wrapIOError("I/O-error reading inline item", IoEOF)
            ELSE UNCHANGED <<result, err>>
  /\ UNCHANGED <<reader, input, MinimalMode, pc, encoded, redecoded,
                 opts, blankPattern, commentPattern, goroutines, encodeArg, inlineLimit>>

\* the rest of Parse after the loop
InlineReturn ==
  /\ pc = "inline"
  /\ \/ inlineCall.at = "loop" /\ Len(parser.Inline.Stack) = 0
     \/ inlineCall.at = "broken"
  /\ \E r \in {InlineFinish(parser.Inline, inlineCall.state, inlineCall.result)} :
       /\ result' = r.result
       /\ err' = r.err
  /\ inlineCall' = [inlineCall EXCEPT !.at = "returned"]
  /\ UNCHANGED <<reader, input, MinimalMode, pc, parser, encoded, redecoded,
                 opts, blankPattern, commentPattern, goroutines, encodeArg, inlineLimit>>

NextInlineCall == InlineBegin \/ InlineIterate \/ InlineReturn

SpecInlineCall == InitInlineCall /\ [][NextInlineCall]_vars

SpecInlineReuse == InitInlineReuse /\ [][NextInlineCall]_vars

\* the call on the text `input[inlineCall.n]` has returned
InlineReturned == pc = "inline" /\ inlineCall.at = "returned"

\* the text of the current call
InlineText == input[inlineCall.n]

\* the same call made on a new instance
FreshParse == InlineParse(NewInlineParser, StartState(InlineText), InlineText)

-----------------------------------------------------------------------------
(* C31: once the inline automaton has closed the outermost bracket (zero    *)
(* open frames), only whitespace may remain on the line: any trailing       *)
(* non-whitespace character makes the inline parse fail with 'extra         *)
(* characters after closing delimiter', and trailing whitespace alone is    *)
(* accepted.                                                                *)

ExtraCharacters == "extra characters after closing delimiter"

\* the number of brackets left open after the first i characters of text
RECURSIVE OpenAfter(_, _)
OpenAfter(text, i) ==
  IF i = 0 THEN 0
  ELSE OpenAfter(text, i - 1)
       + (IF text[i] \in {"[", "{"} THEN 1 ELSE IF text[i] \in {"]", "}"} THEN -1 ELSE 0)

\* the position at which the outermost bracket is closed, 0 for none
OuterClose(text) ==
  Bind({ i \in 1..Len(text) : OpenAfter(text, i) = 0 }, LAMBDA closed :
    IF closed = {} THEN 0 ELSE CHOOSE i \in closed : \A j \in closed : i <= j)

C31_OnlyWhitespaceAfterClose ==
  (InlineReturned /\ inlineCall.n = 1 /\ parser.Inline.Stack = <<>>) =>
    /\ OuterClose(InlineText) > 0
    /\ parser.Inline.TextPosition = OuterClose(InlineText)
    /\ IF \E i \in (OuterClose(InlineText) + 1)..Len(InlineText) : ~IsSpace(InlineText[i])
         THEN err # NilErr /\ err.msg = ExtraCharacters
         ELSE err = NilErr

\* '[a]a' has been rejected for the 'a' after the closing bracket
C31_Witness ==
  /\ InlineReturned
  /\ InlineText = <<"[", "a", "]", "a">>
  /\ parser.Inline.Stack = <<>>
  /\ err.msg = ExtraCharacters

-----------------------------------------------------------------------------
(* C32: inline brackets must match by kind: a line is accepted only if      *)
(* every ']' closes a frame opened by '[' and every '}' closes a frame      *)
(* opened by '{', and the scanner already rejects a line starting with '['  *)
(* or '{' whose last non-whitespace character is not the matching closer;   *)
(* '[}', '[a, a }' and unclosed items are errors.                           *)

Closer(open) == IF open = "[" THEN "]" ELSE "}"

\* every closing bracket of text[i..] closes the innermost open bracket of its kind,
\* and no bracket is left open; `open` holds the open brackets, innermost last
RECURSIVE BracketsMatch(_, _, _)
BracketsMatch(text, i, open) ==
  IF i > Len(text) THEN open = <<>>
  ELSE IF text[i] \in {"[", "{"} THEN BracketsMatch(text, i + 1, Append(open, text[i]))
  ELSE IF text[i] \in {"]", "}"}
    THEN /\ open # <<>>
         /\ text[i] = Closer(open[Len(open)])
         /\ BracketsMatch(text, i + 1, SubSeq(open, 1, Len(open) - 1))
  ELSE BracketsMatch(text, i + 1, open)

\* the last non-whitespace character of the line closes its first character
LastCloses(line) == TrimSpace(line)[Len(TrimSpace(line))] = Closer(line[1])

NoMatchingCloser == "inline-item does not match opening tag"

C32_BracketsMatchByKind ==
  Done =>
    /\ ~Failed => BracketsMatch(input[1], 1, <<>>)
    /\ ~LastCloses(input[1]) =>
         /\ Failed
         /\ err.msg = NoMatchingCloser
         /\ err.Code = ErrCodeFormat + 3

\* '[a}]' passes the scanner and is rejected by the inline parser at the '}'
C32_Witness ==
  /\ Done
  /\ input = << <<"[", "a", "}", "]">> >>
  /\ Failed
  /\ err.msg = "format error"

-----------------------------------------------------------------------------
(* C33: when the inline automaton enters the error state on a character,    *)
(* the returned format error carries the line number of the inline item and *)
(* the 1-based column, within the source line (indentation included), of    *)
(* that offending character, unless a more specific error was recorded on   *)
(* the stack, which is then returned instead.                               *)

\* the automaton's own error, returned when the stack holds no error
FormatError == "format error"

\* the 1-based column of the character the inline parser stopped at
OffendingColumn == LeadingSpaces(input[1]) + parser.Inline.TextPosition + 1

C33_ErrorColumnOneBased ==
  (Done /\ Failed /\ err.msg = FormatError) =>
    /\ err.Code = ErrCodeFormat
    /\ err.Line = 1
    /\ err.Column = OffendingColumn

-----------------------------------------------------------------------------
(* Both parsers with their stacks in view. The inline parser is stepped     *)
(* through its loop. The structural parser is stopped at any token: a line  *)
(* that starts with a tab makes NextToken return an error, and every        *)
(* function of the parser returns on that error without touching the stack, *)
(* so the stack of the failed call is the stack the parser had when it read *)
(* that token.                                                              *)

\* "a: b", "a:", "-", "- a", ": a"
StoppedBodies ==
  { <<"a", ":", " ", "b">>, <<"a", ":">>, <<"-">>, <<"-", " ", "a">>, <<":", " ", "a">> }

\* a line the scanner rejects
TabLine == <<"\t", "a">>

StoppedLines == Indented(StoppedBodies) \cup {TabLine}

InitStopped ==
  /\ \E k \in 0..MaxStoppedLines : input \in [1..k -> StoppedLines]
  /\ MinimalMode = FALSE
  /\ InitCall

SpecAccumulators ==
  (InitStopped \/ InitInlineCall) /\ [][Next \/ NextInlineCall]_vars

-----------------------------------------------------------------------------
(* C34: accumulator invariant: in every reachable state of the structural   *)
(* parser and of the inline parser, each mapping-shaped stack entry holds   *)
(* as many keys as values and its keys are pairwise distinct, and each      *)
(* sequence-shaped entry holds no keys; consequently ReduceToItem never     *)
(* hits its 'mixed item' panic and never silently drops a value.            *)

EntryBalanced(entry) ==
  IF entry.KeysNil THEN entry.Keys = <<>>
  ELSE /\ Len(entry.Keys) = Len(entry.Values)
       /\ \A i, j \in 1..Len(entry.Keys) : entry.Keys[i] = entry.Keys[j] => i = j

C34_AccumulatorInvariant ==
  /\ \A i \in 1..Len(parser.Stack) : EntryBalanced(parser.Stack[i])
  /\ \A i \in 1..Len(parser.Inline.Stack) : EntryBalanced(parser.Inline.Stack[i])

\* the structural parser stopped inside a mapping that holds a key and its value
C34_Witness ==
  /\ Done
  /\ Failed
  /\ \E i \in 1..Len(parser.Stack) :
       /\ ~parser.Stack[i].KeysNil
       /\ Len(parser.Stack[i].Keys) = 1
       /\ Len(parser.Stack[i].Values) = 1

-----------------------------------------------------------------------------
(* C35: the 'internal error: unknown item type' branch of parseAny is       *)
(* unreachable: for every input, whenever parseAny dispatches on the        *)
(* current token that token is a string-multiline, inline list, inline      *)
(* dict, list item, multi-line list item, key-with-value, key-only or       *)
(* multi-line key token, never DocRoot, EOF, EmptyDocument or an untyped    *)
(* token. The branch returns its error without consuming the token, and the *)
(* token types it is taken for have indent 0, so no caller replaces the     *)
(* error: if the branch were taken, Parse would return it.                  *)

UnknownItemType == "internal error: unknown item type"

C35_UnknownItemTypeUnreachable ==
  Done => err.msg # UnknownItemType

\* a document whose decoding went through parseAny for a list, a dict and a string
C35_Witness ==
  /\ Done
  /\ ~Failed
  /\ result.t = "list"
  /\ Len(result.v) = 1
  /\ result.v[1].t = "map"
  /\ \E k \in DOMAIN result.v[1].v : result.v[1].v[k].t = "str"

-----------------------------------------------------------------------------
(* The token stream: NextToken called again and again, by a caller that     *)
(* stops at the first error token (as every parser function does) and that  *)
(* keeps calling after the EOF token.                                       *)

MaxTokenLines == 3

\* "- a", "> a", "a:", and two bodies that yield an error token: "[a}", "-a"
TokenBodies ==
  { <<"-", " ", "a">>, <<">", " ", "a">>, <<"a", ":">>, <<"[", "a", "}">>, <<"-", "a">> }

TokenLines == { Indent(n) \o b : n \in {0, 2}, b \in TokenBodies } \cup IgnoredLines

InitTokens ==
  /\ \E k \in 0..MaxTokenLines : input \in [1..k -> TokenLines]
  /\ MinimalMode = FALSE
  /\ InitCall

\* one more call of NextToken after it has returned the EOF token
ScanPastEnd ==
  /\ pc \in {"scanned", "exhausted"}
  /\ parser.Token.TokenType = "EOF"
  /\ parser' = Advance(parser)
  /\ pc' = "exhausted"
  /\ UNCHANGED <<reader, input, MinimalMode, result, err, encoded, redecoded,
               opts, blankPattern, commentPattern, goroutines, encodeArg, inlineLimit, inlineCall>>

NextTokens == CreateScanner \/ ScanNextToken \/ ScanPastEnd

SpecTokens == InitTokens /\ [][NextTokens]_vars

\* the first content line after physical line i, 0 when there is none
RECURSIVE NextContent(_)
NextContent(i) ==
  IF i >= Len(input) THEN 0
  ELSE IF IsContentLine(input[i + 1]) THEN i + 1
  ELSE NextContent(i + 1)

\* the physical line of the content line the current token was made of
PreviousLine ==
  IF parser.Token.TokenType \in {"DocRoot", "EmptyDocument"} THEN 0 ELSE parser.Token.LineNo

\* C36: after the document-root token every call of NextToken returns the
\* token of the next content line, its line number the physical line of
\* that line (blank and comment lines counted), and from the exhaustion of
\* the input on every call returns the EOF token
C36_OneTokenPerContentLine ==
  [][(pc \in {"tokens", "scanned", "exhausted"}) =>
       IF parser.Token.TokenType = "EOF" \/ NextContent(PreviousLine) = 0
         THEN parser'.Token.TokenType = "EOF"
         ELSE /\ parser'.Token.TokenType \notin {"EOF", "DocRoot", "EmptyDocument"}
              /\ parser'.Token.LineNo = NextContent(PreviousLine)
              /\ parser'.Token.LineNo > PreviousLine]_vars

\* the token of the third line has been returned after an ignored second line
C36_Witness ==
  /\ pc \in {"tokens", "scanned"}
  /\ Len(input) = 3
  /\ input[2] \in IgnoredLines
  /\ IsContentLine(input[1])
  /\ parser.Token.TokenType \notin {"EOF", "DocRoot", "EmptyDocument"}
  /\ parser.Token.Error = NilErr
  /\ parser.Token.LineNo = 3

-----------------------------------------------------------------------------
(* Termination: the loops of the decode, one iteration per step. The loop   *)
(* of parseListItems or parseDictKeyValuePairs that parseDocument enters    *)
(* for the top-level item is stepped one iteration at a time (the items it  *)
(* parses are whole calls), next to the calls of NextToken and the          *)
(* iterations of the inline automaton.                                      *)

MaxTermLines == 3
MaxTermText == 3

\* one iteration of the loop of parseListItems: "leave" when the loop
\* condition is false, "next" for another iteration, "return" and "break" as
\* in the code
parseListItemsIteration(p, indent) ==
  IF p.Token.TokenType \notin {"ListItem", "ListItemMultiline"}
    THEN [p |-> p, exit |-> "leave", result |-> List(Tos(p.Stack).Values), err |-> NilErr]
  ELSE Bind(IF p.Token.TokenType = "ListItem" THEN parseListItem(p, indent)
            ELSE parseListItemMultiline(p, indent), LAMBDA r :
    IF r.result # Nil /\ r.err = NilErr
      THEN Bind(PushKV(r.p.Stack, NilKey, r.result), LAMBDA pk :
             IF pk.err # NilErr
               THEN [p |-> r.p, exit |-> "return", result |-> Nil, err |-> pk.err]
               ELSE [p |-> [r.p EXCEPT !.Stack = pk.stack], exit |-> "next",
                     result |-> Nil, err |-> NilErr])
    ELSE IF r.err # NilErr
      THEN [p |-> r.p, exit |-> "return", result |-> Nil, err |-> r.err]
    ELSE [p |-> r.p, exit |-> "break", result |-> List(Tos(r.p.Stack).Values), err |-> NilErr])

\* what parseDictKeyValuePairs calls for the current token
parseDictPair(p, indent) ==
  CASE p.Token.TokenType = "InlineDictKeyValue" -> parseDictKeyValuePair(p, indent)
    [] p.Token.TokenType = "InlineDictKey" -> parseDictKeyAnyValuePair(p, indent)
    [] p.Token.TokenType = "DictKeyMultiline" ->
         parseDictKeyValuePairWithMultilineKey(p, indent)

\* the iteration of parseDictKeyValuePairs going on to the next iteration
\* when the pair has no value
parseDictKeyValuePairsIteration_ContinueOnNil(p, indent) ==
  IF p.Token.TokenType \notin {"InlineDictKeyValue", "InlineDictKey", "DictKeyMultiline"}
    THEN [p |-> p, exit |-> "leave", result |-> Nil, err |-> NilErr]
  ELSE Bind(parseDictPair(p, indent), LAMBDA kv :
    IF kv.value # Nil
      THEN IF kv.err # NilErr
             THEN [p |-> kv.p, exit |-> "return", result |-> Nil, err |-> kv.err]
             ELSE Bind(PushKV(kv.p.Stack, kv.key, kv.value), LAMBDA pk :
                    IF pk.err # NilErr
                      THEN [p |-> kv.p, exit |-> "return", result |-> Nil, err |-> pk.err]
                      ELSE [p |-> [kv.p EXCEPT !.Stack = pk.stack], exit |-> "next",
                            result |-> Nil, err |-> NilErr])
      ELSE [p |-> kv.p, exit |-> "next", result |-> Nil, err |-> NilErr])

\* one iteration of the loop of parseDictKeyValuePairs
parseDictKeyValuePairsIteration(p, indent) ==
  IF p.Token.TokenType \notin {"InlineDictKeyValue", "InlineDictKey", "DictKeyMultiline"}
    THEN [p |-> p, exit |-> "leave", result |-> Nil, err |-> NilErr]
  ELSE IF p.Token.TokenType = "DictKeyMultiline" /\ p.MinimalMode
    THEN [p |-> p, exit |-> "return", result |-> Nil,
          err |-> makeParsingError(p.Token, ErrCodeFormat,
                    "multi-line key syntax is not allowed in minimal mode")]
  ELSE Bind(parseDictPair(p, indent), LAMBDA kv :
    IF kv.value # Nil
      THEN IF kv.err # NilErr
             THEN [p |-> kv.p, exit |-> "return", result |-> Nil, err |-> kv.err]
             ELSE Bind(PushKV(kv.p.Stack, kv.key, kv.value), LAMBDA pk :
                    IF pk.err # NilErr
                      THEN [p |-> kv.p, exit |-> "return", result |-> Nil, err |-> pk.err]
                      ELSE [p |-> [kv.p EXCEPT !.Stack = pk.stack], exit |-> "next",
                            result |-> Nil, err |-> NilErr])
      ELSE [p |-> kv.p, exit |-> "break", result |-> Nil, err |-> kv.err])

ListTokens == {"ListItem", "ListItemMultiline"}
DictTokens == {"InlineDictKeyValue", "InlineDictKey", "DictKeyMultiline"}

\* the parser when parseDocument has read the first two tokens
AtFirstItem(p) == Advance(Advance(p))

InitTermination ==
  \/ /\ \E k \in 0..MaxTermLines : input \in [1..k -> TokenLines]
     /\ MinimalMode = FALSE
     /\ InitCall
  \/ /\ input \in { <<t>> : t \in InlineTexts(MaxTermText) }
     /\ MinimalMode = FALSE
     /\ pc = "inline"
     /\ reader = [data |-> <<>>, fails |-> FALSE]
     /\ NotStarted

\* parseDocument, parseAny and parseList or parseDict up to the loop
EnterLoop ==
  /\ pc = "scanning"
  /\ ~IsEofPanics(parser.Sc.Buf)
  /\ Advance(parser).Token.Error = NilErr
  /\ Advance(parser).Token.TokenType \notin {"EOF", "EmptyDocument"}
  /\ \E p \in {AtFirstItem(parser)} :
       /\ p.Token.Error = NilErr
       /\ p.Token.TokenType \in ListTokens \cup DictTokens
       /\ p.depth < maxNestingDepth
       /\ parser' = pushNonterm([p EXCEPT !.depth = p.depth + 1],
                                p.Token.TokenType \in DictTokens)
       /\ pc' = IF p.Token.TokenType \in ListTokens THEN "listloop" ELSE "dictloop"
  /\ UNCHANGED <<reader, input, MinimalMode, result, err, encoded, redecoded,
               opts, blankPattern, commentPattern, goroutines, encodeArg, inlineLimit, inlineCall>>

\* one iteration of the loop, at the indentation 0 of the top-level item
LoopIteration ==
  /\ pc \in {"listloop", "dictloop"}
  /\ \E it \in {IF pc = "listloop" THEN parseListItemsIteration(parser, 0)
                ELSE parseDictKeyValuePairsIteration(parser, 0)} :
       /\ parser' = it.p
       /\ pc' = IF it.exit = "next" THEN pc ELSE "left"
       /\ result' = it.result
       /\ err' = it.err
  /\ UNCHANGED <<reader, input, MinimalMode, encoded, redecoded,
               opts, blankPattern, commentPattern, goroutines, encodeArg, inlineLimit, inlineCall>>

NextTermination ==
  \/ CreateScanner
  \/ ParseDocument
  \/ ScanNextToken
  \/ ScanPastEnd
  \/ EnterLoop
  \/ LoopIteration
  \/ NextInlineCall

SpecTermination == InitTermination /\ [][NextTermination]_vars /\ WF_vars(NextTermination)

\* the input lines the scanner has not consumed yet, and the tokens the
\* parser has still to consume
UnreadLines(p) == Len(p.Sc.Buf.Input) + (IF p.Sc.Buf.isEof = 0 THEN 1 ELSE 0)
UnreadTokens(p) == UnreadLines(p) + (IF p.Token.TokenType = "EOF" THEN 0 ELSE 1)

\* a call of NextToken consumes a line, or returns EOF or an error
Consumes ==
  \/ UnreadLines(parser') < UnreadLines(parser)
  \/ parser'.Token.TokenType = "EOF"
  \/ parser'.Token.Error # NilErr

\* the step is a call of NextToken by the caller of the scanner: any call,
\* and a call after the first
TokenCall == pc \in {"scanning", "tokens", "scanned", "exhausted"} /\ pc' \in {"tokens", "scanned", "exhausted"}
LaterTokenCall == TokenCall /\ pc # "scanning"

\* an iteration of the list or dict loop that goes on to the next iteration
\* has consumed a token
LoopConsumes ==
  (pc \in {"listloop", "dictloop"} /\ pc' = pc) => UnreadTokens(parser') < UnreadTokens(parser)

\* an iteration of the inline automaton that goes on to the next iteration
\* has moved the text position by the one character that ReadRune returned
InlineConsumes ==
  (pc = "inline" /\ inlineCall.at = "loop" /\ inlineCall'.at = "loop") =>
     /\ parser'.Inline.TextPosition = parser.Inline.TextPosition + 1
     /\ parser'.Inline.TextPosition <= Len(parser.Inline.Text)

\* the call has ended: Parse has returned, the caller of NextToken has seen
\* EOF or an error, the loop has been left, the inline Parse has returned
Ended ==
  \/ pc \in {"done", "scanned", "exhausted", "left"}
  \/ pc = "inline" /\ inlineCall.at = "returned"

\* C37 as stated: every NextToken call consumes a line or returns EOF or an
\* error, every loop iteration consumes a token, returns or leaves, every
\* inline iteration consumes a character, and the decode ends
C37_EveryCallConsumes ==
  /\ [][(TokenCall => Consumes) /\ LoopConsumes /\ InlineConsumes]_vars
  /\ <>Ended

\* C37: every NextToken call after the first consumes a line or returns EOF
\* or an error, the first returns the document-root token and, unless it
\* carries an error, leaves the first line in the buffer; every iteration of the list and dict
\* loops that does not return or leave the loop consumes a token; every
\* iteration of the inline automaton that does not leave the loop advances
\* the text position by one character; and every call ends
C37_Terminates ==
  /\ [][/\ LaterTokenCall => Consumes
        /\ (TokenCall /\ pc = "scanning") =>
              /\ parser'.Token.TokenType \in {"DocRoot", "EOF"}
              /\ parser'.Token.Error = NilErr => UnreadLines(parser') = UnreadLines(parser)
        /\ LoopConsumes
        /\ InlineConsumes]_vars
  /\ <>Ended

\* the top-level loop has pushed two items in two iterations and has been
\* left in the third
C37_Witness ==
  /\ pc = "left"
  /\ Len(input) = 3
  /\ Len(parser.Stack) = 1
  /\ Len(Tos(parser.Stack).Values) = 2

-----------------------------------------------------------------------------
(* The stack and the depth counter of the structural parser, in the states  *)
(* of the stepped top-level loop and at the return of Parse.                *)

SpecBalance == InitTermination /\ [][NextTermination]_vars

\* the top-level loop is running or has just returned into parseList or
\* parseDict: one parseAny invocation is active
InLoop == pc \in {"listloop", "dictloop", "left"}

\* the depth counter is the number of active parseAny invocations: one
\* inside the top-level loop, none when Parse has returned
DepthRestored ==
  /\ InLoop => parser.depth = 1
  /\ Done => parser.depth = 0

\* after a successful Parse the stack is empty and the token is EOF
BalancedAtSuccess ==
  (Done /\ err = NilErr) =>
     /\ parser.Stack = <<>>
     /\ parser.depth = 0
     /\ parser.Token.TokenType = "EOF"

\* C38: during a parse the stack is never higher than the depth counter,
\* the depth counter is the number of active parseAny invocations on every
\* path, and after a successful Parse the stack is empty, the depth 0 and
\* the token EOF
C38_StackWithinDepth ==
  /\ InLoop => Len(parser.Stack) <= parser.depth
  /\ DepthRestored
  /\ BalancedAtSuccess

\* the same without the bound of the stack height by the depth
DepthBalanced == DepthRestored /\ BalancedAtSuccess

-----------------------------------------------------------------------------
(* C39: the Minimal() option only removes behaviours.                       *)

\* Parse of the document with and without Minimal(): [result, err]
ParseWith(minimal) ==
  Bind(ParserParse(NewParser(NewScanner(input, reader.fails), minimal, <<>>)), LAMBDA r :
    [result |-> r.result, err |-> r.err])

\* C39: a document that Parse accepts in minimal mode is accepted without
\* minimal mode with the same value, and a document that Parse rejects
\* without minimal mode is rejected in minimal mode
C39_MinimalOnlyRemoves ==
  /\ (Done /\ MinimalMode /\ err = NilErr) =>
        ParseWith(FALSE) = [result |-> result, err |-> NilErr]
  /\ (Done /\ ~MinimalMode /\ err # NilErr) => ParseWith(TRUE).err # NilErr

\* a nested document has been decoded in minimal mode
C39_Witness ==
  /\ Done
  /\ MinimalMode
  /\ err = NilErr
  /\ Len(input) = 3
  /\ result.t = "map"
  /\ \E k \in DOMAIN result.v : result.v[k].t = "list"

-----------------------------------------------------------------------------
(* C40: a second call of InlineItemParser.Parse on the same instance.       *)

\* the first call on the instance and what it left behind
EarlierParse == InlineParse(NewInlineParser, StartState(input[1]), input[1])

\* C40: the result and the error of a call of Parse on an instance that has
\* been used before, also for a call that failed and left frames on the
\* stack, are those of the same call on a new instance
C40_InlineParserReusable ==
  (InlineReturned /\ inlineCall.n = 2) =>
     /\ result = FreshParse.result
     /\ err = FreshParse.err

\* a list has been parsed on an instance whose earlier call failed with
\* frames left on the stack
C40_Witness ==
  /\ InlineReturned
  /\ inlineCall.n = 2
  /\ EarlierParse.err # NilErr
  /\ Len(EarlierParse.ip.Stack) >= 2
  /\ err = NilErr
  /\ result.t = "list"
  /\ result.v # <<>>

====
